---- MODULE Spec2Model ----
(***************************************************************************)
(* Product catalog service: the SQLite-backed Store (products, variants,   *)
(* the 3-second read cache of GetProduct), the /products/ dispatcher of    *)
(* Server.routes and the product handlers, the CSV export and import, the  *)
(* variant and review handlers, the middleware chain with the rate limiter *)
(* and its sweep, and the purchase and GetProduct calls taken statement by *)
(* statement for the interleavings of goroutines.                          *)
(*                                                                         *)
(* Conventions of the model                                                *)
(*   - time is counted in whole seconds (time.Now().UTC());                *)
(*   - a decimal amount of the JSON API (float64 dollars) is the fraction  *)
(*     num/den of integers, so 1.50 is Dec(150, 100);                      *)
(*   - a URL path is the sequence of its segments: /products/3/purchase is *)
(*     <<"products", "3", "purchase">>;                                    *)
(*   - one action is one HTTP request served from start to end; in        *)
(*     SpecCache, SpecPurchase, SpecDetails and SpecImportLoop one action  *)
(*     is one statement (or one turn of a loop) of a call.                 *)
(***************************************************************************)
EXTENDS Integers, Sequences, FiniteSets, Bags, TLC

VARIABLES
    products,      \* table products: row id |-> row (rows are never removed)
    variants,      \* table variants: row id |-> row
    productCache,  \* Store.productCache: id |-> [product, expiresAt]
    now,           \* the wall clock, in seconds
    reqNo,         \* number of requests served so far
    resp,          \* the response to the last request
    reviews,       \* table reviews: row id |-> row
    sequence,      \* sqlite_sequence: table name |-> last AUTOINCREMENT id
    calls,         \* the calls in flight: the bag of their locals and positions
    hist,          \* history: the committed writes and the reads behind the cache
    rl             \* the rateLimiter: visitors (ip |-> visitor) and the ticks of
                   \* the cleanup ticker received so far

vars == <<products, variants, productCache, now, reqNo, resp, reviews, sequence,
          calls, hist, rl>>

----------------------------------------------------------------------------
(* Bounds of the exploration *)

MaxRequests == 3
MaxTime == 3
MaxProducts == 9
MaxGoroutines == 2
MaxCalls == 2
MaxWrites == 1
MaxPurchases == 3

(* deleted_at DATETIME DEFAULT NULL *)
NULL == -1

(* expiresAt: now.Add(3 * time.Second) *)
CacheTTL == 3

----------------------------------------------------------------------------
(* Rows *)

ProductRow(id, name, desc, priceCents, category, inStock, quantity, t) ==
    [id |-> id, name |-> name, description |-> desc, price_cents |-> priceCents,
     category |-> category, in_stock |-> inStock, quantity |-> quantity,
     created_at |-> t, updated_at |-> t, deleted_at |-> NULL]

VariantRow(id, productID, sku, name, priceCents, quantity, attrs, sortOrder, t) ==
    [id |-> id, product_id |-> productID, sku |-> sku, name |-> name,
     price_cents |-> priceCents, quantity |-> quantity, in_stock |-> quantity > 0,
     attributes |-> attrs, sort_order |-> sortOrder,
     created_at |-> t, updated_at |-> t]

(* seedData: the eight product rows inserted into an empty database *)
seedProducts ==
    << ProductRow(1, "Wireless Mouse", "Ergonomic wireless mouse with USB receiver", 2499, "electronics", TRUE, 25, 0),
       ProductRow(2, "Mechanical Keyboard", "Cherry MX Blue switches, full-size layout", 8999, "electronics", TRUE, 12, 0),
       ProductRow(3, "USB-C Hub", "7-in-1 USB-C adapter with HDMI and ethernet", 3499, "electronics", TRUE, 0, 0),
       ProductRow(4, "Standing Desk", "Electric sit-stand desk, 60 inch wide", 49999, "furniture", FALSE, 8, 0),
       ProductRow(5, "Monitor Arm", "Single monitor mount, gas spring, VESA compatible", 4999, "furniture", TRUE, 0, 0),
       ProductRow(6, "Notebook Pack", "200-page lined notebooks, pack of 3", -500, "office", TRUE, 50, 0),
       ProductRow(7, "Desk Lamp", "LED desk lamp with adjustable brightness", 3299, "office", TRUE, 15, 0),
       ProductRow(8, "Webcam HD", "1080p webcam with built-in microphone", 5999, "electronics", TRUE, 3, 0) >>

(* seedData: the nine variant rows *)
seedVariantList ==
    << VariantRow(1, 1, "WM-BLK", "Wireless Mouse - Black", 2499, 10, "{\"color\":\"black\"}", 1, 0),
       VariantRow(2, 1, "WM-WHT", "Wireless Mouse - White", 2499, 8, "{\"color\":\"white\"}", 2, 0),
       VariantRow(3, 1, "WM-BLU", "Wireless Mouse - Blue", 2699, 7, "{\"color\":\"blue\"}", 3, 0),
       VariantRow(4, 2, "KB-FULL", "Mechanical Keyboard - Full Size", 8999, 6, "{\"size\":\"full\"}", 1, 0),
       VariantRow(5, 2, "KB-TKL", "Mechanical Keyboard - Tenkeyless", 7999, 4, "{\"size\":\"tenkeyless\"}", 2, 0),
       VariantRow(6, 2, "KB-65", "Mechanical Keyboard - 65%", 8499, 2, "{\"size\":\"65%\"}", 3, 0),
       VariantRow(7, 4, "SD-48", "Standing Desk - 48 inch", 39999, 3, "{\"width\":\"48in\"}", 1, 0),
       VariantRow(8, 4, "SD-60", "Standing Desk - 60 inch", 49999, 5, "{\"width\":\"60in\"}", 2, 0),
       VariantRow(9, 4, "SD-72", "Standing Desk - 72 inch", 59999, 0, "{\"width\":\"72in\"}", 3, 0) >>

seedVariants == [i \in 1..Len(seedVariantList) |-> seedVariantList[i]]

(* the locals of a call a goroutine has just entered: op is the call, pc
   the statement it has reached, id the row named, start the time.Now() it
   took, p and err the result of GetProduct, currentQty the quantity its
   SELECT read, status the HTTP status written, readNo the number of writes
   committed before the database read whose row it holds, reviews the rows
   ListReviews returned *)
NewCall(op, id, pc) ==
    [op |-> op, pc |-> pc, id |-> id, start |-> 0, p |-> << >>, err |-> "",
     currentQty |-> 0, status |-> 0, readNo |-> 0, reviews |-> << >>]

(* NewStore: tables created, cache empty, seed rows inserted *)
Init ==
    /\ products = seedProducts
    /\ variants = seedVariants
    /\ productCache = << >>
    /\ now = 0
    /\ reqNo = 0
    /\ resp = [method |-> "", url |-> << >>, reqBody |-> "", handler |-> "none",
               status |-> 0, body |-> ""]
    /\ reviews = << >>
    /\ sequence = [variants |-> Len(seedVariantList), reviews |-> 0]
    /\ calls = EmptyBag
    /\ hist = [writes |-> << >>, entryRead |-> << >>, purchased |-> << >>,
               allowed |-> << >>, seen |-> << >>, recovered |-> 0,
               unswept |-> << >>, returned |-> 0]
    /\ rl = [visitors |-> << >>, ticks |-> 0]

----------------------------------------------------------------------------
(* Store: the data-access layer.  Each operator takes the tables (and the  *)
(* cache and the clock where the method uses them) and returns the error   *)
(* ("" is nil), the result and the tables after the call.                  *)

IsActive(prods, id) == id \in 1..Len(prods) /\ prods[id].deleted_at = NULL

(* a uniqueness over the rows that are not soft-deleted only *)
NameTaken_active(prods, name, exceptId) ==
    \E i \in 1..Len(prods) :
        i # exceptId /\ prods[i].name = name /\ prods[i].deleted_at = NULL

(* UNIQUE(name): the names of all rows, soft-deleted rows included *)
NameTaken(prods, name, exceptId) ==
    \E i \in 1..Len(prods) : i # exceptId /\ prods[i].name = name

(* description = description[:128]; the model's long descriptions and their
   first 128 bytes *)
Truncated ==
    [s \in {"A very long description, longer than one hundred and twenty-eight bytes, which the store cuts at the limit when the product row is written."} |->
        "A very long description, longer than one hundred and twenty-eight bytes, which the store cuts at the limit when the product row "]

Truncate(description) ==
    IF Len(description) > 128 THEN Truncated[description] ELSE description

(* a text of SQL or of a request is kept as the pieces the single quotes cut
   it into; Quote is the piece of a quote itself *)
Quote == "'"

SplitQuotes(s) ==
    CASE s = "x' OR '1'='1" -> <<"x", Quote, " OR ", Quote, "1", Quote, "=", Quote, "1">>
      [] s = "o'brien" -> <<"o", Quote, "brien">>
      [] OTHER -> <<s>>

(* fmt.Sprintf(`... WHERE category = '%s'`, category): the WHERE clause of
   the statement, the argument pasted between two quotes *)
WhereClause(category) == <<"category = ", Quote>> \o SplitQuotes(category) \o <<Quote>>

(* SQLite's tokenizer on the pieces from k on: a string literal runs from a
   quote to the next quote, everything else is SQL text; a literal that is
   not closed ends the tokens with an error *)
RECURSIVE Tokens(_, _)
Tokens(pieces, k) ==
    IF k > Len(pieces) THEN << >>
    ELSE IF pieces[k] # Quote
    THEN <<[kind |-> "sql", text |-> pieces[k]]>> \o Tokens(pieces, k + 1)
    ELSE IF k + 2 <= Len(pieces) /\ pieces[k + 1] # Quote /\ pieces[k + 2] = Quote
    THEN <<[kind |-> "literal", text |-> pieces[k + 1]]>> \o Tokens(pieces, k + 3)
    ELSE <<[kind |-> "error", text |-> "unrecognized token"]>>

(* the number of "OR literal = literal" terms after the first comparison *)
OrTerms(tokens) == (Len(tokens) - 2) \div 4

(* the WHERE clauses SQLite accepts here: category = literal, followed by
   any number of OR literal = literal *)
SyntaxOk(tokens) ==
    /\ Len(tokens) >= 2
    /\ (Len(tokens) - 2) % 4 = 0
    /\ tokens[1] = [kind |-> "sql", text |-> "category = "]
    /\ tokens[2].kind = "literal"
    /\ \A g \in 0..(OrTerms(tokens) - 1) :
          /\ tokens[3 + 4 * g] = [kind |-> "sql", text |-> " OR "]
          /\ tokens[4 + 4 * g].kind = "literal"
          /\ tokens[5 + 4 * g] = [kind |-> "sql", text |-> "="]
          /\ tokens[6 + 4 * g].kind = "literal"

(* the value of the WHERE clause on a row *)
Matches(tokens, row) ==
    \/ row.category = tokens[2].text
    \/ \E g \in 0..(OrTerms(tokens) - 1) :
          tokens[4 + 4 * g].text = tokens[6 + 4 * g].text

(* the error of s.db.Query(query): the statement does not parse *)
ListProductsErr(category) ==
    category # "" /\ ~SyntaxOk(Tokens(WhereClause(category), 1))

(* the rows ListProducts returns (none with the error) *)
ListProducts(prods, category) ==
    IF category = "" THEN prods
    ELSE IF ListProductsErr(category) THEN << >>
    ELSE SelectSeq(prods, LAMBDA p : Matches(Tokens(WhereClause(category), 1), p))

(* the entry with its expiry counted from the time it is stored instead of
   the time GetProduct was entered *)
cachedProduct_fromStoreTime(p, start) == [product |-> p, expiresAt |-> now + CacheTTL]

(* cachedProduct{product: p, expiresAt: now.Add(3 * time.Second)}, where now
   is the time GetProduct took when it was entered *)
cachedProduct(p, start) == [product |-> p, expiresAt |-> start + CacheTTL]

(* s.productCache[id] = entry *)
cachePut(cache, id, entry) ==
    [i \in DOMAIN cache \cup {id} |-> IF i = id THEN entry ELSE cache[i]]

GetProduct(prods, cache, t, id) ==
    IF id \in DOMAIN cache /\ t < cache[id].expiresAt
    THEN [err |-> "", product |-> cache[id].product, cache |-> cache]
    ELSE IF IsActive(prods, id)
         THEN [err |-> "", product |-> prods[id],
               cache |-> cachePut(cache, id, cachedProduct(prods[id], t))]
         ELSE [err |-> "sql: no rows in result set", product |-> << >>, cache |-> cache]

CreateProduct(prods, t, name, description, priceCents, category, inStock, quantity) ==
    IF name = ""
    THEN [err |-> "name is required", id |-> 0, products |-> prods]
    ELSE IF priceCents < 0
    THEN [err |-> "price must be non-negative", id |-> 0, products |-> prods]
    ELSE IF NameTaken(prods, name, 0)
    THEN [err |-> "UNIQUE constraint failed: products.name", id |-> 0, products |-> prods]
    ELSE [err |-> "", id |-> Len(prods) + 1,
          products |-> Append(prods,
              ProductRow(Len(prods) + 1, name, Truncate(description), priceCents,
                         category, inStock, quantity, t))]

(* the row replaced as a whole (INSERT OR REPLACE), whatever its deleted_at *)
UpdateProduct_replace(prods, t, id, name, description, priceCents, category, inStock, quantity) ==
    IF id \notin 1..Len(prods)
    THEN [err |-> "product not found", products |-> prods]
    ELSE IF NameTaken(prods, name, id)
    THEN [err |-> "UNIQUE constraint failed: products.name", products |-> prods]
    ELSE [err |-> "",
          products |-> [prods EXCEPT ![id] =
              [ProductRow(id, name, description, priceCents, category, inStock,
                          quantity, t) EXCEPT !.created_at = prods[id].created_at]]]

UpdateProduct(prods, t, id, name, description, priceCents, category, inStock, quantity) ==
    IF ~IsActive(prods, id)
    THEN [err |-> "product not found", products |-> prods]
    ELSE IF NameTaken(prods, name, id)
    THEN [err |-> "UNIQUE constraint failed: products.name", products |-> prods]
    ELSE [err |-> "",
          products |-> [prods EXCEPT ![id] =
              [@ EXCEPT !.name = name, !.description = description,
                        !.price_cents = priceCents, !.category = category,
                        !.in_stock = inStock, !.quantity = quantity,
                        !.updated_at = t]]]

(* UPDATE products SET deleted_at = ?, updated_at = ? WHERE id = ?, without
   the test of deleted_at *)
(* the row taken out of stock as it is deleted: SET in_stock = 0, quantity = 0 *)
DeleteProduct_unstock(prods, t, id) ==
    IF ~IsActive(prods, id)
    THEN [err |-> "product not found", products |-> prods]
    ELSE [err |-> "",
          products |-> [prods EXCEPT ![id] = [@ EXCEPT !.deleted_at = t, !.updated_at = t,
                                                       !.in_stock = FALSE,
                                                       !.quantity = 0]]]

DeleteProduct_again(prods, t, id) ==
    IF id \notin 1..Len(prods)
    THEN [err |-> "product not found", products |-> prods]
    ELSE [err |-> "",
          products |-> [prods EXCEPT ![id] = [@ EXCEPT !.deleted_at = t, !.updated_at = t]]]

DeleteProduct(prods, t, id) ==
    IF ~IsActive(prods, id)
    THEN [err |-> "product not found", products |-> prods]
    ELSE [err |-> "",
          products |-> [prods EXCEPT ![id] = [@ EXCEPT !.deleted_at = t, !.updated_at = t]]]

(* the decrement done by the database in the UPDATE itself: SET quantity =
   quantity - 1, in_stock = (quantity - 1 > 0) *)
Decremented_inPlace(row, currentQty, t) ==
    [row EXCEPT !.quantity = row.quantity - 1, !.in_stock = row.quantity - 1 > 0,
                !.updated_at = t]

(* UPDATE ... SET quantity = ?, in_stock = ?, updated_at = ? WHERE id = ?
   with newQty := currentQty - 1 and inStock := newQty > 0, of
   DecrementQuantity and of DecrementVariantQuantity: the row is written
   from the quantity the SELECT before it read *)
Decremented(row, currentQty, t) ==
    LET newQty == currentQty - 1
        inStock == newQty > 0
    IN  [row EXCEPT !.quantity = newQty, !.in_stock = inStock, !.updated_at = t]

(* SELECT quantity ... WHERE id = ?; UPDATE ... WHERE id = ?: no test of
   deleted_at and none of the quantity read.  The other copy of the store
   does the same in one statement (UPDATE products SET quantity =
   quantity - 1, in_stock = (quantity - 1 > 0) WHERE id = ?); served alone,
   as here, the two have the same effect on an existing row. *)
DecrementQuantity(prods, t, id) ==
    IF id \notin 1..Len(prods)
    THEN [err |-> "sql: no rows in result set", products |-> prods]
    ELSE LET currentQty == prods[id].quantity
         IN  [err |-> "",
              products |-> [prods EXCEPT ![id] = Decremented(@, currentQty, t)]]

(* Variants *)

(* UNIQUE(sku) *)
SkuTaken(vs, sku, exceptId) ==
    \E i \in DOMAIN vs : i # exceptId /\ vs[i].sku = sku

(* the table with row id written *)
PutRow(table, id, row) ==
    [i \in DOMAIN table \cup {id} |-> IF i = id THEN row ELSE table[i]]

(* DELETE FROM ... WHERE id = ? *)
RemoveRow(table, id) == [i \in DOMAIN table \ {id} |-> table[i]]

(* the parent product is looked up with GetProduct, through the cache *)
CreateVariant(vs, seq, prods, cache, t, productID, sku, name, priceCents, quantity, attributes, sortOrder) ==
    LET g == GetProduct(prods, cache, t, productID)
        id == seq.variants + 1
        failed(err, c) == [err |-> err, id |-> 0, variants |-> vs, sequence |-> seq,
                           cache |-> c]
    IN  IF sku = "" THEN failed("sku is required", cache)
        ELSE IF name = "" THEN failed("name is required", cache)
        ELSE IF g.err # "" THEN failed("product not found", g.cache)
        ELSE IF SkuTaken(vs, sku, 0)
        THEN failed("insert variant: UNIQUE constraint failed: variants.sku", g.cache)
        ELSE [err |-> "", id |-> id,
              variants |-> PutRow(vs, id,
                  VariantRow(id, productID, sku, name, priceCents, quantity,
                             attributes, sortOrder, t)),
              sequence |-> [seq EXCEPT !.variants = id],
              cache |-> g.cache]

(* UPDATE variants SET sku = ?, name = ?, price_cents = ?, quantity = ?,
   in_stock = ?, ... WHERE id = ?: every column as the caller gives it *)
UpdateVariant(vs, t, variantID, sku, name, priceCents, quantity, inStock, attributes, sortOrder) ==
    IF variantID \notin DOMAIN vs
    THEN [err |-> "variant not found", variants |-> vs]
    ELSE IF SkuTaken(vs, sku, variantID)
    THEN [err |-> "update variant: UNIQUE constraint failed: variants.sku",
          variants |-> vs]
    ELSE [err |-> "",
          variants |-> [vs EXCEPT ![variantID] =
              [@ EXCEPT !.sku = sku, !.name = name, !.price_cents = priceCents,
                        !.quantity = quantity, !.in_stock = inStock,
                        !.attributes = attributes, !.sort_order = sortOrder,
                        !.updated_at = t]]]

GetVariant(vs, variantID) ==
    IF variantID \in DOMAIN vs
    THEN [err |-> "", variant |-> vs[variantID]]
    ELSE [err |-> "sql: no rows in result set", variant |-> << >>]

DeleteVariant(vs, variantID) ==
    IF variantID \in DOMAIN vs
    THEN [err |-> "", variants |-> RemoveRow(vs, variantID)]
    ELSE [err |-> "variant not found", variants |-> vs]

(* Reviews *)

ReviewRow(id, productID, author, rating, comment, t) ==
    [id |-> id, product_id |-> productID, author |-> author, rating |-> rating,
     comment |-> comment, approved |-> FALSE, created_at |-> t]

(* the parent product is looked up with GetProduct, through the cache *)
CreateReview(revs, seq, prods, cache, t, productID, author, rating, comment) ==
    LET g == GetProduct(prods, cache, t, productID)
        id == seq.reviews + 1
        failed(err, c) == [err |-> err, id |-> 0, reviews |-> revs, sequence |-> seq,
                           cache |-> c]
    IN  IF author = "" THEN failed("author is required", cache)
        ELSE IF rating < 1 \/ rating > 5
        THEN failed("rating must be between 1 and 5", cache)
        ELSE IF g.err # "" THEN failed("product not found", g.cache)
        ELSE [err |-> "", id |-> id,
              reviews |-> PutRow(revs, id,
                  ReviewRow(id, productID, author, rating, comment, t)),
              sequence |-> [seq EXCEPT !.reviews = id],
              cache |-> g.cache]

(* UPDATE reviews SET approved = 1 with no WHERE clause *)
ApproveReview_all(revs, reviewID) ==
    IF reviewID \in DOMAIN revs
    THEN [err |-> "", reviews |-> [i \in DOMAIN revs |-> [revs[i] EXCEPT !.approved = TRUE]]]
    ELSE [err |-> "review not found", reviews |-> revs]

DeleteReview(revs, reviewID) ==
    IF reviewID \in DOMAIN revs
    THEN [err |-> "", reviews |-> RemoveRow(revs, reviewID)]
    ELSE [err |-> "review not found", reviews |-> revs]

ApproveReview(revs, reviewID) ==
    IF reviewID \in DOMAIN revs
    THEN [err |-> "", reviews |-> [revs EXCEPT ![reviewID] = [@ EXCEPT !.approved = TRUE]]]
    ELSE [err |-> "review not found", reviews |-> revs]

(* SELECT ... FROM reviews WHERE product_id = ? ORDER BY created_at DESC;
   rows of one created_at come in the order of their ids *)
RECURSIVE ListReviews(_, _)
ListReviews(revs, productID) ==
    LET ids == {i \in DOMAIN revs : revs[i].product_id = productID}
        first == CHOOSE i \in ids : \A j \in ids :
                    \/ revs[i].created_at > revs[j].created_at
                    \/ (revs[i].created_at = revs[j].created_at /\ i <= j)
    IN  IF ids = {} THEN << >>
        ELSE <<revs[first]>> \o ListReviews(RemoveRow(revs, first), productID)

(* the sum of the ratings of a list of reviews *)
RECURSIVE SumRatings(_)
SumRatings(rows) ==
    IF rows = << >> THEN 0 ELSE Head(rows).rating + SumRatings(Tail(rows))

(* SELECT COALESCE(AVG(rating), 0) and the count of the rows FROM reviews
   WHERE product_id = ? *)
GetAverageRating(revs, productID) ==
    LET rows == ListReviews(revs, productID)
    IN  [avg |-> IF rows = << >> THEN [num |-> 0, den |-> 1]
                 ELSE [num |-> SumRatings(rows), den |-> Len(rows)],
         count |-> Len(rows)]

(* Aggregates.  SUM over no rows is NULL, and Scan of NULL into an int
   fails; COUNT over no rows is 0 *)
ScanNull == "converting NULL to int is unsupported"

(* SUM(quantity) over the rows ids of a table *)
RECURSIVE SumQuantity(_, _)
SumQuantity(table, ids) ==
    IF ids = {} THEN 0
    ELSE LET i == CHOOSE i \in ids : TRUE
         IN  table[i].quantity + SumQuantity(table, ids \ {i})

(* SELECT COUNT, COALESCE(SUM(quantity), 0), SUM(CASE WHEN in_stock = 1 THEN
   1 ELSE 0 END) FROM variants WHERE product_id = ? *)
GetVariantInventory(vs, productID) ==
    LET ids == {i \in DOMAIN vs : vs[i].product_id = productID}
    IN  IF ids = {}
        THEN [err |-> ScanNull, inventory |-> << >>]
        ELSE [err |-> "",
              inventory |-> [product_id |-> productID,
                             variant_count |-> Cardinality(ids),
                             total_stock |-> SumQuantity(vs, ids),
                             in_stock_count |-> Cardinality({i \in ids : vs[i].in_stock})]]

(* SELECT COUNT, SUM(CASE WHEN in_stock = 1 ...), SUM(CASE WHEN in_stock = 0
   ...) FROM products WHERE deleted_at IS NULL *)
GetProductCount(prods) ==
    LET ids == {i \in 1..Len(prods) : prods[i].deleted_at = NULL}
    IN  IF ids = {}
        THEN [err |-> ScanNull, total |-> 0, inStock |-> 0, outOfStock |-> 0]
        ELSE [err |-> "", total |-> Cardinality(ids),
              inStock |-> Cardinality({i \in ids : prods[i].in_stock}),
              outOfStock |-> Cardinality({i \in ids : ~prods[i].in_stock})]

----------------------------------------------------------------------------
(* Router: Server.routes.  `path` is the URL path after "/products/".      *)

(* strings.HasSuffix(path, "/" + seg) *)
HasSuffix(path, seg) == Len(path) >= 2 /\ path[Len(path)] = seg

(* strings.Contains(path, "/" + seg) *)
Contains(path, seg) == \E i \in 2..Len(path) : path[i] = seg

routeReviews(method, path) ==
    IF HasSuffix(path, "approve")
    THEN (IF method = "POST" THEN "handleApproveReview" ELSE "405")
    ELSE IF Len(path) = 2
    THEN (CASE method = "GET" -> "handleListReviews"
            [] method = "POST" -> "handleCreateReview"
            [] OTHER -> "405")
    ELSE IF Len(path) >= 3
    THEN (IF method = "DELETE" THEN "handleDeleteReview" ELSE "405")
    ELSE "404"

routeVariants(method, path) ==
    IF HasSuffix(path, "purchase")
    THEN (IF method = "POST" THEN "handlePurchaseVariant" ELSE "405")
    ELSE IF Len(path) = 2
    THEN (CASE method = "GET" -> "handleListVariants"
            [] method = "POST" -> "handleCreateVariant"
            [] OTHER -> "405")
    ELSE IF Len(path) >= 3
    THEN (CASE method = "GET" -> "handleGetVariant"
            [] method = "PUT" -> "handleUpdateVariant"
            [] method = "DELETE" -> "handleDeleteVariant"
            [] OTHER -> "405")
    ELSE "404"

(* the dispatcher with the bare product path served as a read for every
   method it does not name *)
routeProduct_default(method, path) ==
    IF HasSuffix(path, "purchase")
    THEN (IF method = "POST" THEN "handlePurchaseProduct" ELSE "405")
    ELSE IF Contains(path, "reviews")
    THEN routeReviews(method, path)
    ELSE IF Contains(path, "variants")
    THEN routeVariants(method, path)
    ELSE IF HasSuffix(path, "inventory")
    THEN (IF method = "GET" THEN "handleGetVariantInventory" ELSE "405")
    ELSE IF HasSuffix(path, "details")
    THEN (IF method = "GET" THEN "handleGetProductWithReviews" ELSE "405")
    ELSE CASE method = "PUT" -> "handleUpdateProduct"
           [] method = "DELETE" -> "handleDeleteProduct"
           [] OTHER -> "handleGetProduct"

(* the handler registered for "/products/" *)
routeProduct(method, path) ==
    IF HasSuffix(path, "purchase")
    THEN (IF method = "POST" THEN "handlePurchaseProduct" ELSE "405")
    ELSE IF Contains(path, "reviews")
    THEN routeReviews(method, path)
    ELSE IF Contains(path, "variants")
    THEN routeVariants(method, path)
    ELSE IF HasSuffix(path, "inventory")
    THEN (IF method = "GET" THEN "handleGetVariantInventory" ELSE "405")
    ELSE IF HasSuffix(path, "details")
    THEN (IF method = "GET" THEN "handleGetProductWithReviews" ELSE "405")
    ELSE CASE method = "GET" -> "handleGetProduct"
           [] method = "PUT" -> "handleUpdateProduct"
           [] method = "DELETE" -> "handleDeleteProduct"
           [] OTHER -> "405"

(* the handler registered for "/products" *)
routeProducts(method) ==
    CASE method = "GET" -> "handleListProducts"
      [] method = "POST" -> "handleCreateProduct"
      [] OTHER -> "405"

(* http.ServeMux: the exact patterns "/products", "/products/export",
   "/products/export/json", "/products/import" and "/products/stats" win over
   the subtree pattern "/products/" *)
routes(method, url) ==
    IF url = <<"products">>
    THEN routeProducts(method)
    ELSE IF url = <<"products", "export">>
    THEN (IF method = "GET" THEN "handleExportCSV" ELSE "405")
    ELSE IF url = <<"products", "export", "json">>
    THEN (IF method = "GET" THEN "handleExportJSON" ELSE "405")
    ELSE IF url = <<"products", "import">>
    THEN (IF method = "POST" THEN "handleImportCSV" ELSE "405")
    ELSE IF url = <<"products", "stats">>
    THEN (IF method = "GET" THEN "handleGetStats" ELSE "405")
    ELSE IF Len(url) >= 2 /\ url[1] = "products"
    THEN routeProduct(method, Tail(url))
    ELSE "404"

----------------------------------------------------------------------------
(* Conversions *)

(* strconv.Itoa: the decimal text of an integer *)
Itoa(n) == ToString(n)

(* the decimal texts strconv.Atoi converts, over the integers the model uses *)
Digits == [s \in {Itoa(n) : n \in -9..99} |-> CHOOSE n \in -9..99 : Itoa(n) = s]

Atoi(s) ==
    IF s \in DOMAIN Digits
    THEN [err |-> FALSE, val |-> Digits[s]]
    ELSE [err |-> TRUE, val |-> 0]

(* a float64 dollar amount, num/den with den > 0 *)
Dec(num, den) == [num |-> num, den |-> den]

DecEq(a, b) == a.num * b.den = b.num * a.den

DecLess(a, b) == a.num * b.den < b.num * a.den

(* int(math.Round(price * 100)): halves are rounded away from zero.  The
   integer part and the remainder are scaled apart, so that no intermediate
   product leaves the range of the integers. *)
RoundCents(price) ==
    LET a == IF price.num >= 0 THEN price.num ELSE -price.num
        cents == 100 * (a \div price.den)
                   + (200 * (a % price.den) + price.den) \div (2 * price.den)
    IN  IF price.num >= 0 THEN cents ELSE -cents

(* toAPIProduct: Price: float64(p.PriceCents) * 100 *)
toAPIProduct(p) ==
    [id |-> p.id, name |-> p.name, description |-> p.description,
     price |-> Dec(p.price_cents * 100, 1),
     category |-> p.category, in_stock |-> p.in_stock, quantity |-> p.quantity,
     created_at |-> p.created_at, updated_at |-> p.updated_at,
     deleted_at |-> p.deleted_at]

(* toAPIVariant: Price: float64(v.PriceCents) / 100 *)
toAPIVariant(v) ==
    [id |-> v.id, product_id |-> v.product_id, sku |-> v.sku, name |-> v.name,
     price |-> Dec(v.price_cents, 100), quantity |-> v.quantity,
     in_stock |-> v.in_stock, attributes |-> v.attributes,
     sort_order |-> v.sort_order, created_at |-> v.created_at,
     updated_at |-> v.updated_at]

----------------------------------------------------------------------------
(* CSV export and import.  A file is its Content-Type, its header record   *)
(* and its data records; a field is a string.                              *)

(* fmt.Sprintf("%.2f", x): sign, integer digits, point, two fractional
   digits *)
FormatFloat2(x) ==
    LET a == IF x.num >= 0 THEN x.num ELSE -x.num
        f == (200 * (a % x.den) + x.den) \div (2 * x.den)
        whole == IF f = 100 THEN a \div x.den + 1 ELSE a \div x.den
        frac == IF f = 100 THEN 0 ELSE f
    IN  (IF x.num < 0 THEN "-" ELSE "") \o ToString(whole) \o "."
          \o (IF frac < 10 THEN "0" ELSE "") \o ToString(frac)

(* the amounts, in hundredths, whose decimal text a file of the model holds:
   the prices the export writes (toAPIProduct of the stored cents) and the
   prices of the hand-written files *)
Hundredths ==
    {10000 * c : c \in {seedProducts[i].price_cents : i \in 1..Len(seedProducts)}
                        \cup {150, 151, 1250, -500}}
      \cup {1250, -100, 200}

(* strconv.ParseFloat(s, 64) on the decimal texts of the model *)
FloatTexts ==
    [s \in {FormatFloat2(Dec(h, 100)) : h \in Hundredths} |->
        CHOOSE h \in Hundredths : FormatFloat2(Dec(h, 100)) = s]

ParseFloat(s) ==
    IF s \in DOMAIN FloatTexts
    THEN [err |-> FALSE, val |-> Dec(FloatTexts[s], 100)]
    ELSE [err |-> TRUE, val |-> Dec(0, 1)]

(* strconv.FormatBool *)
FormatBool(b) == IF b THEN "true" ELSE "false"

(* strings.TrimSpace on the texts of the model *)
TrimSpace(s) ==
    CASE s = " Stapler " -> "Stapler"
      [] s = " " -> ""
      [] OTHER -> s

(* strings.ToLower on the texts of the model *)
ToLower(s) ==
    CASE s = "TRUE" -> "true"
      [] s = "True" -> "true"
      [] s = "Name" -> "name"
      [] OTHER -> s

(* time.Time.Format(time.RFC3339) of the second t of the model's clock *)
FormatTime(t) == "1970-01-01T00:00:0" \o ToString(t) \o "Z"

CsvFile(contentType, header, rows) ==
    [contentType |-> contentType, header |-> header, rows |-> rows]

(* the file handleExportCSV writes: one record per row of ListProducts *)
ExportCSV(prods, category) ==
    LET rows == ListProducts(prods, category)
        record(p) ==
            LET apiProduct == toAPIProduct(p)
            IN  << Itoa(apiProduct.id), apiProduct.name, apiProduct.description,
                   FormatFloat2(apiProduct.price), apiProduct.category,
                   FormatBool(apiProduct.in_stock), Itoa(apiProduct.quantity),
                   FormatTime(apiProduct.created_at),
                   FormatTime(apiProduct.updated_at) >>
    IN  CsvFile("text/csv",
                <<"id", "name", "description", "price", "category", "in_stock",
                  "quantity", "created_at", "updated_at">>,
                [i \in 1..Len(rows) |-> record(rows[i])])

expectedHeader == <<"name", "description", "price", "category", "in_stock", "quantity">>

(* headerMap[strings.ToLower(strings.TrimSpace(col))] = i: the last column
   of a name wins; 0 when no column has the name *)
headerMap(header, name) ==
    LET cols == {i \in 1..Len(header) : ToLower(TrimSpace(header[i])) = name}
    IN  IF cols = {} THEN 0 ELSE CHOOSE i \in cols : \A j \in cols : j <= i

(* the loop of handleImportCSV left at the first record it skips *)
RECURSIVE importRecords_abort(_, _, _, _)
importRecords_abort(file, t, k, acc) ==
    IF k > Len(file.rows) THEN acc
    ELSE
      LET record == file.rows[k]
          lineNum == k + 1
          field(name) == TrimSpace(record[headerMap(file.header, name)])
          skip(msg) == [acc EXCEPT !.skipped = @ + 1,
                                   !.errors = Append(@, <<lineNum, msg>>)]
          price == ParseFloat(field("price"))
          quantity == Atoi(field("quantity"))
          inStock == ToLower(field("in_stock")) = "true" \/ field("in_stock") = "1"
          c == CreateProduct(acc.products, t, field("name"), field("description"),
                             RoundCents(price.val), field("category"), inStock,
                             quantity.val)
      IN  IF Len(record) # Len(file.header) THEN skip("wrong number of fields")
          ELSE IF field("name") = "" THEN skip("name is required")
          ELSE IF price.err THEN skip("invalid price")
          ELSE IF quantity.err THEN skip("invalid quantity")
          ELSE IF c.err # "" THEN skip(c.err)
          ELSE importRecords_abort(file, t, k + 1,
                   [acc EXCEPT !.products = c.products, !.imported = @ + 1])

(* the loop of handleImportCSV from record k on: acc is the table, the
   counters and the error list so far *)
RECURSIVE importRecords(_, _, _, _)
importRecords(file, t, k, acc) ==
    IF k > Len(file.rows) THEN acc
    ELSE
      LET record == file.rows[k]
          lineNum == k + 1
          field(name) == TrimSpace(record[headerMap(file.header, name)])
          skip(msg) == [acc EXCEPT !.skipped = @ + 1,
                                   !.errors = Append(@, <<lineNum, msg>>)]
          price == ParseFloat(field("price"))
          quantity == Atoi(field("quantity"))
          inStock == ToLower(field("in_stock")) = "true" \/ field("in_stock") = "1"
          c == CreateProduct(acc.products, t, field("name"), field("description"),
                             RoundCents(price.val), field("category"), inStock,
                             quantity.val)
      IN  importRecords(file, t, k + 1,
            IF Len(record) # Len(file.header) THEN skip("wrong number of fields")
            ELSE IF field("name") = "" THEN skip("name is required")
            ELSE IF price.err THEN skip("invalid price")
            ELSE IF quantity.err THEN skip("invalid quantity")
            ELSE IF c.err # "" THEN skip(c.err)
            ELSE [acc EXCEPT !.products = c.products, !.imported = @ + 1])

(* handleImportCSV on the table prods: the status, the JSON result and the
   table after the request *)
ImportCSV(prods, t, file) ==
    IF file.contentType \notin {"text/csv", "multipart/form-data"}
    THEN [status |-> 400, body |-> "expected CSV content", products |-> prods]
    ELSE IF Len(file.header) = 0
    THEN [status |-> 400, body |-> "failed to read CSV header", products |-> prods]
    ELSE IF \E i \in 1..Len(expectedHeader) :
               headerMap(file.header, expectedHeader[i]) = 0
    THEN [status |-> 400, body |-> "missing required column", products |-> prods]
    ELSE LET r == importRecords(file, t, 1,
                      [products |-> prods, imported |-> 0, skipped |-> 0,
                       errors |-> << >>])
         IN  [status |-> IF r.skipped > 0 THEN 206 ELSE 200,
              body |-> [imported |-> r.imported, skipped |-> r.skipped,
                        errors |-> r.errors],
              products |-> r.products]

----------------------------------------------------------------------------
(* Requests the model issues *)

Req(method, url) == [method |-> method, url |-> url]

(* product 8 is seeded with quantity 3, product 3 with quantity 0, product 9
   is the first product a request creates, product 4 owns variant 7 *)
Requests ==
    { Req("GET", <<"products">>),
      Req("POST", <<"products">>),
      Req("DELETE", <<"products">>),
      Req("GET", <<"products", "abc">>),
      Req("GET", <<"products", "8", "purchase">>),
      Req("POST", <<"products", "3", "purchase">>),
      Req("POST", <<"products", "4", "variants", "7", "purchase">>) }
    \cup { Req(m, <<"products", i>>) : m \in {"GET", "PUT", "DELETE"}, i \in {"8", "9"} }
    \cup { Req("POST", <<"products", i, "purchase">>) : i \in {"8", "9"} }
    \cup { Req("GET", <<"products", "export">>),
           Req("POST", <<"products", "import">>) }

(* ?category= of GET /products *)
Categories == {"", "office"}

Body(name, price, category, inStock, quantity) ==
    [name |-> name, description |-> "", price |-> price, category |-> category,
     in_stock |-> inStock, quantity |-> quantity]

(* JSON bodies of POST /products and PUT /products/:id; a field the JSON
   leaves out decodes to its zero value *)
ProductBodies ==
    { Body("Pen", Dec(150, 100), "office", FALSE, 2),
      Body("Pen", Dec(1505, 1000), "office", TRUE, 1),
      Body("USB-C Hub", Dec(3499, 100), "electronics", TRUE, 0),
      Body("", Dec(-5, 1), "", FALSE, 0) }

(* ?category= of GET /products/export *)
ExportCategories == {"", "furniture"}

(* bodies of POST /products/import written by hand: a file whose header is
   in another order and case, with a record of negative price, one whose
   price is no number, one that is short and then a good one; a file with the good
   record alone; a file sent as JSON *)
CsvUploads ==
    { CsvFile("text/csv",
              <<"Name", "price", "description", "category", "in_stock", "quantity">>,
              << <<"Ruler", "-1.00", "",
                   "office", "1", "2">>,
                 <<"Tape", "abc", "", "office", "false", "1">>,
                 <<"Glue", "2.00">>,
                 <<" Stapler ", "12.50", " ",
                   "office", "TRUE", "4">> >>),
      CsvFile("text/csv",
              <<"name", "description", "price", "category", "in_stock", "quantity">>,
              << <<"Stapler", "", "12.50",
                   "office", "1", "4">> >>),
      CsvFile("application/json", << >>, << >>) }

(* the last request (method, url, decoded JSON body or query parameter) and
   the response written to it (handler that served it, status code, body) *)
Reply(method, url, reqBody, handler, status, body) ==
    [method |-> method, url |-> url, reqBody |-> reqBody, handler |-> handler,
     status |-> status, body |-> body]

----------------------------------------------------------------------------
(* Handlers: one action serves one request *)

(* GET /products *)
handleListProducts(method, url, category) ==
    /\ reqNo < MaxRequests
    /\ routes(method, url) = "handleListProducts"
    /\ LET rows == ListProducts(products, category)
       IN  IF ListProductsErr(category)
           THEN resp' = Reply(method, url, category, "handleListProducts", 500,
                              "failed to list products")
           ELSE resp' = Reply(method, url, category, "handleListProducts", 200,
                              [i \in 1..Len(rows) |-> toAPIProduct(rows[i])])
    /\ reqNo' = reqNo + 1
    /\ UNCHANGED <<products, variants, productCache, now, reviews, sequence, calls, hist, rl>>

(* POST /products *)
handleCreateProduct(method, url, req) ==
    /\ reqNo < MaxRequests
    /\ routes(method, url) = "handleCreateProduct"
    /\ IF DecLess(req.price, Dec(0, 1))
       THEN /\ resp' = Reply(method, url, req, "handleCreateProduct", 400,
                             "price must be non-negative")
            /\ UNCHANGED products
       ELSE LET priceCents == RoundCents(req.price)
                c == CreateProduct(products, now, req.name, req.description,
                                   priceCents, req.category, req.in_stock,
                                   req.quantity)
            IN  /\ Len(c.products) <= MaxProducts
                /\ products' = c.products
                /\ resp' = Reply(method, url, req, "handleCreateProduct", 201,
                                 [id |-> c.id])
    /\ reqNo' = reqNo + 1
    /\ UNCHANGED <<variants, productCache, now, reviews, sequence, calls, hist, rl>>

(* GET /products/:id *)
handleGetProduct(method, url) ==
    /\ reqNo < MaxRequests
    /\ routes(method, url) = "handleGetProduct"
    /\ LET id == Atoi(url[2])
           g == GetProduct(products, productCache, now, id.val)
       IN  IF id.err
           THEN /\ resp' = Reply(method, url, "", "handleGetProduct", 400, "invalid product ID")
                /\ UNCHANGED productCache
           ELSE IF g.err # ""
           THEN /\ resp' = Reply(method, url, "", "handleGetProduct", 404, "product not found")
                /\ productCache' = g.cache
           ELSE /\ resp' = Reply(method, url, "", "handleGetProduct", 200,
                                 toAPIProduct(g.product))
                /\ productCache' = g.cache
    /\ reqNo' = reqNo + 1
    /\ UNCHANGED <<products, variants, now, reviews, sequence, calls, hist, rl>>

(* PUT /products/:id *)
handleUpdateProduct(method, url, update) ==
    /\ reqNo < MaxRequests
    /\ routes(method, url) = "handleUpdateProduct"
    /\ LET id == Atoi(url[2])
           priceCents == RoundCents(update.price)
           u == UpdateProduct(products, now, id.val, update.name, update.description,
                              priceCents, update.category, update.in_stock,
                              update.quantity)
           g == GetProduct(u.products, productCache, now, id.val)
       IN  IF id.err
           THEN /\ resp' = Reply(method, url, update, "handleUpdateProduct", 400, "invalid product ID")
                /\ UNCHANGED <<products, productCache>>
           ELSE IF u.err # ""
           THEN /\ resp' = Reply(method, url, update, "handleUpdateProduct", 500,
                                 "failed to update product")
                /\ UNCHANGED <<products, productCache>>
           ELSE IF g.err # ""
           THEN /\ resp' = Reply(method, url, update, "handleUpdateProduct", 404, "product not found")
                /\ products' = u.products
                /\ productCache' = g.cache
           ELSE /\ resp' = Reply(method, url, update, "handleUpdateProduct", 200,
                                 toAPIProduct(g.product))
                /\ products' = u.products
                /\ productCache' = g.cache
    /\ reqNo' = reqNo + 1
    /\ UNCHANGED <<variants, now, reviews, sequence, calls, hist, rl>>

(* DELETE /products/:id *)
handleDeleteProduct(method, url) ==
    /\ reqNo < MaxRequests
    /\ routes(method, url) = "handleDeleteProduct"
    /\ LET id == Atoi(url[2])
           d == DeleteProduct(products, now, id.val)
       IN  IF id.err
           THEN /\ resp' = Reply(method, url, "", "handleDeleteProduct", 400, "invalid product ID")
                /\ UNCHANGED products
           ELSE IF d.err # ""
           THEN /\ resp' = Reply(method, url, "", "handleDeleteProduct", 404, "product not found")
                /\ UNCHANGED products
           ELSE /\ resp' = Reply(method, url, "", "handleDeleteProduct", 204, "")
                /\ products' = d.products
    /\ reqNo' = reqNo + 1
    /\ UNCHANGED <<variants, productCache, now, reviews, sequence, calls, hist, rl>>

(* POST /products/:id/purchase *)
handlePurchaseProduct(method, url) ==
    /\ reqNo < MaxRequests
    /\ routes(method, url) = "handlePurchaseProduct"
    /\ LET id == Atoi(url[2])
           g == GetProduct(products, productCache, now, id.val)
           d == DecrementQuantity(products, now, id.val)
       IN  IF id.err
           THEN /\ resp' = Reply(method, url, "", "handlePurchaseProduct", 400, "invalid product ID")
                /\ UNCHANGED <<products, productCache>>
           ELSE IF g.err # ""
           THEN /\ resp' = Reply(method, url, "", "handlePurchaseProduct", 404, "product not found")
                /\ productCache' = g.cache
                /\ UNCHANGED products
           ELSE IF g.product.quantity <= 0
           THEN /\ resp' = Reply(method, url, "", "handlePurchaseProduct", 409, "out of stock")
                /\ productCache' = g.cache
                /\ UNCHANGED products
           ELSE IF d.err # ""
           THEN /\ resp' = Reply(method, url, "", "handlePurchaseProduct", 500, "purchase failed")
                /\ productCache' = g.cache
                /\ UNCHANGED products
           ELSE /\ resp' = Reply(method, url, "", "handlePurchaseProduct", 200, "purchased")
                /\ productCache' = g.cache
                /\ products' = d.products
    /\ reqNo' = reqNo + 1
    /\ UNCHANGED <<variants, now, reviews, sequence, calls, hist, rl>>

(* GET /products/export *)
handleExportCSV(method, url, category) ==
    /\ reqNo < MaxRequests
    /\ routes(method, url) = "handleExportCSV"
    /\ resp' = Reply(method, url, category, "handleExportCSV", 200,
                     ExportCSV(products, category))
    /\ reqNo' = reqNo + 1
    /\ UNCHANGED <<products, variants, productCache, now, reviews, sequence, calls, hist, rl>>

(* POST /products/import *)
handleImportCSV(method, url, file) ==
    /\ reqNo < MaxRequests
    /\ routes(method, url) = "handleImportCSV"
    /\ LET r == ImportCSV(products, now, file)
       IN  /\ Len(r.products) <= MaxProducts
           /\ products' = r.products
           /\ resp' = Reply(method, url, file, "handleImportCSV", r.status, r.body)
    /\ reqNo' = reqNo + 1
    /\ UNCHANGED <<variants, productCache, now, reviews, sequence, calls, hist, rl>>

(* the files a client has at hand: the hand-written ones and the export it
   has just downloaded *)
Uploads ==
    CsvUploads \cup (IF resp.handler = "handleExportCSV" THEN {resp.body} ELSE {})

(* http.Error(w, "method not allowed", http.StatusMethodNotAllowed) *)
methodNotAllowed(method, url) ==
    /\ reqNo < MaxRequests
    /\ routes(method, url) = "405"
    /\ resp' = Reply(method, url, "", "none", 405, "method not allowed")
    /\ reqNo' = reqNo + 1
    /\ UNCHANGED <<products, variants, productCache, now, reviews, sequence, calls, hist, rl>>

(* the clock advances by one second *)
Tick ==
    /\ now < MaxTime
    /\ now' = now + 1
    /\ UNCHANGED <<products, variants, productCache, reqNo, resp, reviews, sequence, calls, hist, rl>>

Next ==
    \/ \E r \in Requests :
          \/ \E category \in Categories : handleListProducts(r.method, r.url, category)
          \/ \E req \in ProductBodies : handleCreateProduct(r.method, r.url, req)
          \/ handleGetProduct(r.method, r.url)
          \/ \E update \in ProductBodies : handleUpdateProduct(r.method, r.url, update)
          \/ handleDeleteProduct(r.method, r.url)
          \/ handlePurchaseProduct(r.method, r.url)
          \/ \E category \in ExportCategories : handleExportCSV(r.method, r.url, category)
          \/ \E file \in Uploads : handleImportCSV(r.method, r.url, file)
          \/ methodNotAllowed(r.method, r.url)
    \/ Tick

Spec == Init /\ [][Next]_vars

(* JSON bodies of POST /products/:id/reviews *)
ReviewBody(author, rating, comment) ==
    [author |-> author, rating |-> rating, comment |-> comment]

ReviewBodies ==
    { ReviewBody("ann", 5, "good"), ReviewBody("", 3, "anonymous"),
      ReviewBody("bob", 0, ""), ReviewBody("bob", 6, "") }

(* JSON bodies of POST /products/:id/variants and of PUT
   /products/:id/variants/:variantId; attributes is the JSON text of the
   map, "" when the body has none *)
VariantBody(sku, name, price, quantity, inStock) ==
    [sku |-> sku, name |-> name, price |-> price, quantity |-> quantity,
     in_stock |-> inStock, attributes |-> "", sort_order |-> 0]

VariantBodies ==
    { VariantBody("WC-RED", "Webcam HD - Red", Dec(6499, 100), 2, TRUE),
      VariantBody("", "Webcam HD - Red", Dec(6499, 100), 2, TRUE),
      VariantBody("WC-RED", "", Dec(-1, 1), 0, TRUE),
      VariantBody("SD-60", "Standing Desk - copy", Dec(1, 1), 1, FALSE),
      VariantBody("SD-48", "Standing Desk - 48 inch", Dec(39999, 100), 3, FALSE) }

(* attrsJSON := "{}", or the JSON text of req.Attributes *)
attrsJSON(req) == IF req.attributes = "" THEN "{}" ELSE req.attributes

(* POST /products/:id/reviews, the body passed to the store as it came *)
handleCreateReview_unchecked(method, url, req) ==
    /\ reqNo < MaxRequests
    /\ routes(method, url) = "handleCreateReview"
    /\ LET productID == Atoi(url[2])
           c == CreateReview(reviews, sequence, products, productCache, now,
                             productID.val, req.author, req.rating, req.comment)
       IN  IF productID.err
           THEN /\ resp' = Reply(method, url, req, "handleCreateReview", 400, "invalid product ID")
                /\ UNCHANGED <<reviews, sequence, productCache>>
           ELSE IF c.err # ""
           THEN /\ resp' = Reply(method, url, req, "handleCreateReview", 500,
                                 "failed to create review")
                /\ productCache' = c.cache
                /\ UNCHANGED <<reviews, sequence>>
           ELSE /\ resp' = Reply(method, url, req, "handleCreateReview", 201, [id |-> c.id])
                /\ reviews' = c.reviews
                /\ sequence' = c.sequence
                /\ productCache' = c.cache
    /\ reqNo' = reqNo + 1
    /\ UNCHANGED <<products, variants, now, calls, hist, rl>>

(* POST /products/:id/reviews *)
handleCreateReview(method, url, req) ==
    /\ reqNo < MaxRequests
    /\ routes(method, url) = "handleCreateReview"
    /\ LET productID == Atoi(url[2])
           c == CreateReview(reviews, sequence, products, productCache, now,
                             productID.val, req.author, req.rating, req.comment)
       IN  IF productID.err
           THEN /\ resp' = Reply(method, url, req, "handleCreateReview", 400, "invalid product ID")
                /\ UNCHANGED <<reviews, sequence, productCache>>
           ELSE IF req.author = ""
           THEN /\ resp' = Reply(method, url, req, "handleCreateReview", 400, "author is required")
                /\ UNCHANGED <<reviews, sequence, productCache>>
           ELSE IF req.rating < 1 \/ req.rating > 5
           THEN /\ resp' = Reply(method, url, req, "handleCreateReview", 400,
                                 "rating must be between 1 and 5")
                /\ UNCHANGED <<reviews, sequence, productCache>>
           ELSE IF c.err # ""
           THEN /\ resp' = Reply(method, url, req, "handleCreateReview", 500,
                                 "failed to create review")
                /\ productCache' = c.cache
                /\ UNCHANGED <<reviews, sequence>>
           ELSE /\ resp' = Reply(method, url, req, "handleCreateReview", 201, [id |-> c.id])
                /\ reviews' = c.reviews
                /\ sequence' = c.sequence
                /\ productCache' = c.cache
    /\ reqNo' = reqNo + 1
    /\ UNCHANGED <<products, variants, now, calls, hist, rl>>

(* DELETE /products/:id/reviews/:reviewId *)
handleDeleteReview(method, url) ==
    /\ reqNo < MaxRequests
    /\ routes(method, url) = "handleDeleteReview"
    /\ LET reviewID == Atoi(url[4])
           d == DeleteReview(reviews, reviewID.val)
       IN  IF reviewID.err
           THEN /\ resp' = Reply(method, url, "", "handleDeleteReview", 400, "invalid review ID")
                /\ UNCHANGED reviews
           ELSE IF d.err # ""
           THEN /\ resp' = Reply(method, url, "", "handleDeleteReview", 404, "review not found")
                /\ UNCHANGED reviews
           ELSE /\ resp' = Reply(method, url, "", "handleDeleteReview", 204, "")
                /\ reviews' = d.reviews
    /\ reqNo' = reqNo + 1
    /\ UNCHANGED <<products, variants, productCache, now, sequence, calls, hist, rl>>

(* POST /products/:id/reviews/:reviewId/approve *)
handleApproveReview(method, url) ==
    /\ reqNo < MaxRequests
    /\ routes(method, url) = "handleApproveReview"
    /\ LET reviewID == Atoi(url[4])
           a == ApproveReview(reviews, reviewID.val)
       IN  IF reviewID.err
           THEN /\ resp' = Reply(method, url, "", "handleApproveReview", 400, "invalid review ID")
                /\ UNCHANGED reviews
           ELSE IF a.err # ""
           THEN /\ resp' = Reply(method, url, "", "handleApproveReview", 404, "review not found")
                /\ UNCHANGED reviews
           ELSE /\ resp' = Reply(method, url, "", "handleApproveReview", 200, "approved")
                /\ reviews' = a.reviews
    /\ reqNo' = reqNo + 1
    /\ UNCHANGED <<products, variants, productCache, now, sequence, calls, hist, rl>>

(* POST /products/:id/variants *)
handleCreateVariant(method, url, req) ==
    /\ reqNo < MaxRequests
    /\ routes(method, url) = "handleCreateVariant"
    /\ LET productID == Atoi(url[2])
           priceCents == RoundCents(req.price)
           c == CreateVariant(variants, sequence, products, productCache, now,
                              productID.val, req.sku, req.name, priceCents,
                              req.quantity, attrsJSON(req), req.sort_order)
       IN  IF productID.err
           THEN /\ resp' = Reply(method, url, req, "handleCreateVariant", 400, "invalid product ID")
                /\ UNCHANGED <<variants, sequence, productCache>>
           ELSE IF req.sku = ""
           THEN /\ resp' = Reply(method, url, req, "handleCreateVariant", 400, "sku is required")
                /\ UNCHANGED <<variants, sequence, productCache>>
           ELSE IF req.name = ""
           THEN /\ resp' = Reply(method, url, req, "handleCreateVariant", 400, "name is required")
                /\ UNCHANGED <<variants, sequence, productCache>>
           ELSE IF DecLess(req.price, Dec(0, 1))
           THEN /\ resp' = Reply(method, url, req, "handleCreateVariant", 400,
                                 "price must be non-negative")
                /\ UNCHANGED <<variants, sequence, productCache>>
           ELSE IF c.err # ""
           THEN /\ resp' = Reply(method, url, req, "handleCreateVariant", 500,
                                 "failed to create variant")
                /\ productCache' = c.cache
                /\ UNCHANGED <<variants, sequence>>
           ELSE /\ resp' = Reply(method, url, req, "handleCreateVariant", 201, [id |-> c.id])
                /\ variants' = c.variants
                /\ sequence' = c.sequence
                /\ productCache' = c.cache
    /\ reqNo' = reqNo + 1
    /\ UNCHANGED <<products, now, reviews, calls, hist, rl>>

(* PUT /products/:id/variants/:variantId *)
handleUpdateVariant(method, url, req) ==
    /\ reqNo < MaxRequests
    /\ routes(method, url) = "handleUpdateVariant"
    /\ LET variantID == Atoi(url[4])
           priceCents == RoundCents(req.price)
           u == UpdateVariant(variants, now, variantID.val, req.sku, req.name,
                              priceCents, req.quantity, req.in_stock, attrsJSON(req),
                              req.sort_order)
           g == GetVariant(u.variants, variantID.val)
       IN  IF variantID.err
           THEN /\ resp' = Reply(method, url, req, "handleUpdateVariant", 400, "invalid variant ID")
                /\ UNCHANGED variants
           ELSE IF u.err # ""
           THEN /\ resp' = Reply(method, url, req, "handleUpdateVariant", 500,
                                 "failed to update variant")
                /\ UNCHANGED variants
           ELSE IF g.err # ""
           THEN /\ resp' = Reply(method, url, req, "handleUpdateVariant", 404, "variant not found")
                /\ variants' = u.variants
           ELSE /\ resp' = Reply(method, url, req, "handleUpdateVariant", 200,
                                 toAPIVariant(g.variant))
                /\ variants' = u.variants
    /\ reqNo' = reqNo + 1
    /\ UNCHANGED <<products, productCache, now, reviews, sequence, calls, hist, rl>>

(* DELETE /products/:id/variants/:variantId *)
handleDeleteVariant(method, url) ==
    /\ reqNo < MaxRequests
    /\ routes(method, url) = "handleDeleteVariant"
    /\ LET variantID == Atoi(url[4])
           d == DeleteVariant(variants, variantID.val)
       IN  IF variantID.err
           THEN /\ resp' = Reply(method, url, "", "handleDeleteVariant", 400, "invalid variant ID")
                /\ UNCHANGED variants
           ELSE IF d.err # ""
           THEN /\ resp' = Reply(method, url, "", "handleDeleteVariant", 404, "variant not found")
                /\ UNCHANGED variants
           ELSE /\ resp' = Reply(method, url, "", "handleDeleteVariant", 204, "")
                /\ variants' = d.variants
    /\ reqNo' = reqNo + 1
    /\ UNCHANGED <<products, productCache, now, reviews, sequence, calls, hist, rl>>

(* the review requests of product 8, its read and its deletion *)
ReviewRequests ==
    { Req("POST", <<"products", "8", "reviews">>),
      Req("POST", <<"products", "9", "reviews">>),
      Req("DELETE", <<"products", "8", "reviews", "1">>),
      Req("POST", <<"products", "8", "reviews", "1", "approve">>),
      Req("GET", <<"products", "8">>),
      Req("DELETE", <<"products", "8">>) }

NextReviews ==
    \/ \E r \in ReviewRequests :
          \/ \E req \in ReviewBodies : handleCreateReview(r.method, r.url, req)
          \/ handleDeleteReview(r.method, r.url)
          \/ handleApproveReview(r.method, r.url)
          \/ handleGetProduct(r.method, r.url)
          \/ handleDeleteProduct(r.method, r.url)
    \/ Tick

SpecReviews == Init /\ [][NextReviews]_vars

(* the variant requests of products 8 and 4 (variant 7 is seeded, variant 10
   is the first a request creates), a review of product 8, its read and its
   deletion *)
VariantRequests ==
    { Req("POST", <<"products", "8", "variants">>),
      Req("PUT", <<"products", "8", "variants", "10">>),
      Req("PUT", <<"products", "4", "variants", "7">>),
      Req("DELETE", <<"products", "4", "variants", "7">>),
      Req("POST", <<"products", "4", "variants", "7", "purchase">>),
      Req("POST", <<"products", "8", "reviews">>),
      Req("GET", <<"products", "8">>),
      Req("DELETE", <<"products", "8">>) }

NextVariants ==
    \/ \E r \in VariantRequests :
          \/ \E req \in VariantBodies : handleCreateVariant(r.method, r.url, req)
          \/ \E req \in VariantBodies : handleUpdateVariant(r.method, r.url, req)
          \/ handleDeleteVariant(r.method, r.url)
          \/ handlePurchaseProduct(r.method, r.url)
          \/ \E req \in ReviewBodies : handleCreateReview(r.method, r.url, req)
          \/ handleGetProduct(r.method, r.url)
          \/ handleDeleteProduct(r.method, r.url)
    \/ Tick

SpecVariants == Init /\ [][NextVariants]_vars

(* requests on a variant and on a review under the product that owns them
   (variant 7 is of product 4, review 1 is created for product 8) and under
   another product *)
NestedRequests ==
    { Req("POST", <<"products", "8", "reviews">>),
      Req("PUT", <<"products", "4", "variants", "7">>),
      Req("PUT", <<"products", "8", "variants", "7">>),
      Req("DELETE", <<"products", "4", "variants", "7">>),
      Req("DELETE", <<"products", "8", "variants", "7">>),
      Req("DELETE", <<"products", "8", "reviews", "1">>),
      Req("DELETE", <<"products", "4", "reviews", "1">>),
      Req("POST", <<"products", "8", "reviews", "1", "approve">>),
      Req("POST", <<"products", "4", "reviews", "1", "approve">>) }

NextNested ==
    \/ \E r \in NestedRequests :
          \/ \E req \in ReviewBodies : handleCreateReview(r.method, r.url, req)
          \/ \E req \in VariantBodies : handleUpdateVariant(r.method, r.url, req)
          \/ handleDeleteVariant(r.method, r.url)
          \/ handleDeleteReview(r.method, r.url)
          \/ handleApproveReview(r.method, r.url)
    \/ Tick

SpecNested == Init /\ [][NextNested]_vars

(* GET /products/:id/inventory *)
handleGetVariantInventory(method, url) ==
    /\ reqNo < MaxRequests
    /\ routes(method, url) = "handleGetVariantInventory"
    /\ LET productID == Atoi(url[2])
           inv == GetVariantInventory(variants, productID.val)
       IN  resp' = IF productID.err
                   THEN Reply(method, url, "", "handleGetVariantInventory", 400,
                              "invalid product ID")
                   ELSE IF inv.err # ""
                   THEN Reply(method, url, "", "handleGetVariantInventory", 500,
                              "failed to get inventory")
                   ELSE Reply(method, url, "", "handleGetVariantInventory", 200,
                              inv.inventory)
    /\ reqNo' = reqNo + 1
    /\ UNCHANGED <<products, variants, productCache, now, reviews, sequence, calls, hist, rl>>

(* a call of Store.GetProductCount, its results left as the last response *)
callGetProductCount ==
    /\ reqNo < MaxRequests
    /\ resp' = Reply("", << >>, "", "GetProductCount", 0, GetProductCount(products))
    /\ reqNo' = reqNo + 1
    /\ UNCHANGED <<products, variants, productCache, now, reviews, sequence, calls, hist, rl>>

(* the inventory of a product with variants (4) and of one without (8), and
   requests that change the rows counted *)
AggregateRequests ==
    { Req("GET", <<"products", "4", "inventory">>),
      Req("GET", <<"products", "8", "inventory">>),
      Req("DELETE", <<"products", "4", "variants", "7">>),
      Req("DELETE", <<"products", "8">>),
      Req("DELETE", <<"products", "3">>),
      Req("POST", <<"products", "8", "purchase">>) }

NextAggregates ==
    \/ \E r \in AggregateRequests :
          \/ handleGetVariantInventory(r.method, r.url)
          \/ handleDeleteVariant(r.method, r.url)
          \/ handleDeleteProduct(r.method, r.url)
          \/ handlePurchaseProduct(r.method, r.url)
    \/ callGetProductCount
    \/ Tick

SpecAggregates == Init /\ [][NextAggregates]_vars

(* the requests that create, change, delete, purchase and import products,
   and the read that fills the cache: the life of rows 8 and 9 *)
LifecycleRequests ==
    { Req("POST", <<"products">>),
      Req("GET", <<"products", "8">>),
      Req("POST", <<"products", "8", "purchase">>),
      Req("POST", <<"products", "import">>) }
    \cup { Req(m, <<"products", i>>) : m \in {"PUT", "DELETE"}, i \in {"8", "9"} }

NextLifecycle ==
    \/ \E r \in LifecycleRequests :
          \/ \E req \in ProductBodies : handleCreateProduct(r.method, r.url, req)
          \/ handleGetProduct(r.method, r.url)
          \/ \E update \in ProductBodies : handleUpdateProduct(r.method, r.url, update)
          \/ handleDeleteProduct(r.method, r.url)
          \/ handlePurchaseProduct(r.method, r.url)
          \/ \E file \in CsvUploads : handleImportCSV(r.method, r.url, file)
    \/ Tick

SpecLifecycle == Init /\ [][NextLifecycle]_vars

(* ?category= of GET /products, plain and with single quotes *)
ListCategories == {"", "office", "x' OR '1'='1", "o'brien"}

(* JSON bodies of POST /products of the categories listed *)
CategoryBodies ==
    { Body("Pen", Dec(150, 100), "office", TRUE, 2),
      Body("Stout", Dec(5, 1), "o'brien", TRUE, 1) }

ListRequests ==
    { Req("GET", <<"products">>), Req("POST", <<"products">>),
      Req("DELETE", <<"products", "7">>) }

NextList ==
    \/ \E r \in ListRequests :
          \/ \E category \in ListCategories : handleListProducts(r.method, r.url, category)
          \/ \E req \in CategoryBodies : handleCreateProduct(r.method, r.url, req)
          \/ handleDeleteProduct(r.method, r.url)
    \/ Tick

SpecList == Init /\ [][NextList]_vars

----------------------------------------------------------------------------
(* Middleware: s.router = chain(mux, recoveryMiddleware, loggingMiddleware, *)
(* corsMiddleware, rl.middleware).  A request is served through the chain  *)
(* in one step; st is the state it runs on and leaves: the tables and the  *)
(* cache, the visitors, the time, and the response written so far.         *)

(* newRateLimiter(rate, window): the server is built with 100 requests per
   minute; the model follows a limiter of rate requests per window of
   window seconds *)
rate == 2
window == 1

(* the seconds the server is followed for *)
MaxUptime == 4

(* r.RemoteAddr of the clients *)
Clients == {"10.0.0.1:5000", "10.0.0.2:5000"}

visitor(tokens, lastReset) == [tokens |-> tokens, lastReset |-> lastReset]

(* rateLimiter.allow with the last token test one off: a visitor at zero
   tokens is still let through *)
allow_offByOne(visitors, ip, t) ==
    IF ip \notin DOMAIN visitors
    THEN [ok |-> TRUE, visitors |-> PutRow(visitors, ip, visitor(rate - 1, t))]
    ELSE IF t - visitors[ip].lastReset > window
    THEN [ok |-> TRUE, visitors |-> [visitors EXCEPT ![ip] = visitor(rate - 1, t)]]
    ELSE IF visitors[ip].tokens >= 0
    THEN [ok |-> TRUE, visitors |-> [visitors EXCEPT ![ip].tokens = @ - 1]]
    ELSE [ok |-> FALSE, visitors |-> visitors]

(* rateLimiter.allow, run under rl.mu from start to end *)
allow(visitors, ip, t) ==
    IF ip \notin DOMAIN visitors
    THEN [ok |-> TRUE, visitors |-> PutRow(visitors, ip, visitor(rate - 1, t))]
    ELSE IF t - visitors[ip].lastReset > window
    THEN [ok |-> TRUE, visitors |-> [visitors EXCEPT ![ip] = visitor(rate - 1, t)]]
    ELSE IF visitors[ip].tokens > 0
    THEN [ok |-> TRUE, visitors |-> [visitors EXCEPT ![ip].tokens = @ - 1]]
    ELSE [ok |-> FALSE, visitors |-> visitors]

(* the state a request starts on *)
Serving ==
    [products |-> products, cache |-> productCache, visitors |-> rl.visitors,
     now |-> now, handler |-> "none", status |-> 0, body |-> "",
     panicked |-> FALSE]

(* http.Error(w, body, status) and the other writes of a response *)
written(st, handler, status, body) ==
    [st EXCEPT !.handler = handler, !.status = status, !.body = body]

(* the places a handler may panic at: nowhere, on entry, or after its call
   of the store and before it writes the response *)
PanicPoints == {"", "entry", "store"}

(* the mux: the dispatcher of "/products/" and the handlers of the bare
   product path *)
ServeMux(st, method, url, panics) ==
    LET h == routes(method, url)
        id == Atoi(url[2])
        g == GetProduct(st.products, st.cache, st.now, id.val)
        d == DeleteProduct(st.products, st.now, id.val)
    IN  IF h = "405" THEN written(st, "none", 405, "method not allowed")
        ELSE IF h = "404" THEN written(st, "none", 404, "404 page not found")
        ELSE IF panics = "entry" THEN [st EXCEPT !.handler = h, !.panicked = TRUE]
        ELSE IF id.err THEN written(st, h, 400, "invalid product ID")
        ELSE IF h = "handleGetProduct"
        THEN (IF panics = "store"
              THEN [st EXCEPT !.handler = h, !.cache = g.cache, !.panicked = TRUE]
              ELSE IF g.err # ""
              THEN written([st EXCEPT !.cache = g.cache], h, 404, "product not found")
              ELSE written([st EXCEPT !.cache = g.cache], h, 200,
                           toAPIProduct(g.product)))
        ELSE IF h = "handleDeleteProduct"
        THEN (IF panics = "store"
              THEN [st EXCEPT !.handler = h, !.products = d.products, !.panicked = TRUE]
              ELSE IF d.err # ""
              THEN written(st, h, 404, "product not found")
              ELSE written([st EXCEPT !.products = d.products], h, 204, ""))
        ELSE written(st, h, 501, "")

(* rateLimiter.middleware: ip is r.RemoteAddr *)
middleware(st, ip, method, url, panics) ==
    LET a == allow(st.visitors, ip, st.now)
    IN  IF ~a.ok
        THEN written(st, "none", 429, "rate limit exceeded")
        ELSE ServeMux([st EXCEPT !.visitors = a.visitors], method, url, panics)

corsMiddleware(st, ip, method, url, panics) ==
    IF method = "OPTIONS"
    THEN written(st, "none", 204, "")
    ELSE middleware(st, ip, method, url, panics)

(* the log line is written when the handler has returned *)
loggingMiddleware(st, ip, method, url, panics) ==
    corsMiddleware(st, ip, method, url, panics)

(* no recover(): the panic reaches net/http, which logs it and closes the
   connection without a response *)
recoveryMiddleware_none(st, ip, method, url, panics) ==
    loggingMiddleware(st, ip, method, url, panics)

(* defer recover(): http.Error(w, "internal server error", 500) *)
recoveryMiddleware(st, ip, method, url, panics) ==
    LET r == loggingMiddleware(st, ip, method, url, panics)
    IN  IF r.panicked
        THEN [written(r, r.handler, 500, "internal server error")
                 EXCEPT !.panicked = FALSE]
        ELSE r

(* the requests sent through the chain: the bare product path with two
   methods it lists and two it does not, and sub-resource paths with a
   method their route does not list *)
MiddlewareRequests ==
    { Req(m, <<"products", "8">>) : m \in {"GET", "DELETE", "POST", "OPTIONS"} }
    \cup { Req("GET", <<"products", "8", "purchase">>),
           Req("PUT", <<"products", "8", "reviews", "1">>),
           Req("PUT", <<"products", "8", "variants">>),
           Req("GET", <<"products", "8", "reviews", "1", "approve">>) }

(* the requests of the clients of the limiter *)
LimiterRequests ==
    { Req("GET", <<"products", "8">>), Req("OPTIONS", <<"products", "8">>) }

(* the history of the chain: the requests of ip let through since its
   visitor was last created or reset and the time of its last request; the
   visitors as allow alone leaves them, with no sweep, and the number of
   requests of a client whose visitor the sweep had removed; ServeHTTP adds
   the number of requests whose handler panicked *)
Limited(h, ip, before, after, ok, t) ==
    LET reset == ip \notin DOMAIN before
                 \/ after[ip].lastReset # before[ip].lastReset
        sofar == IF ip \in DOMAIN h.allowed THEN h.allowed[ip] ELSE 0
    IN  [h EXCEPT !.seen = PutRow(@, ip, t),
                  !.unswept = allow(@, ip, t).visitors,
                  !.returned = IF ip \in DOMAIN h.unswept /\ ip \notin DOMAIN before
                               THEN @ + 1 ELSE @,
                  !.allowed = PutRow(@, ip, IF ~ok THEN sofar
                                           ELSE IF reset THEN 1
                                           ELSE sofar + 1)]

(* Server.ServeHTTP: one request of the client ip *)
ServeHTTP(ip, method, url, panics) ==
    /\ reqNo < MaxRequests
    /\ LET r == recoveryMiddleware(Serving, ip, method, url, panics)
       IN  /\ r.handler # "none" \/ panics = ""
           /\ resp' = Reply(method, url, [ip |-> ip, panics |-> panics],
                            r.handler, r.status, r.body)
           /\ products' = r.products
           /\ productCache' = r.cache
           /\ rl' = [rl EXCEPT !.visitors = r.visitors]
           /\ hist' = IF method = "OPTIONS" THEN hist
                      ELSE [Limited(hist, ip, rl.visitors, r.visitors,
                                    r.status # 429, now)
                               EXCEPT !.recovered = IF panics # "" THEN @ + 1 ELSE @]
    /\ reqNo' = reqNo + 1
    /\ UNCHANGED <<variants, now, reviews, sequence, calls>>

(* the sweep with the age of an entry compared to one window *)
cleanup_eager ==
    /\ 2 * window * (rl.ticks + 1) <= now
    /\ rl' = [visitors |->
                 [ip \in {i \in DOMAIN rl.visitors :
                             ~(now - rl.visitors[i].lastReset > window)}
                    |-> rl.visitors[ip]],
              ticks |-> now \div (2 * window)]
    /\ UNCHANGED <<products, variants, productCache, now, reqNo, resp, reviews,
                   sequence, calls, hist>>

(* the sweep removing an entry as soon as its age has reached one window *)
cleanup_atWindow ==
    /\ 2 * window * (rl.ticks + 1) <= now
    /\ rl' = [visitors |->
                 [ip \in {i \in DOMAIN rl.visitors :
                             ~(now - rl.visitors[i].lastReset >= window)}
                    |-> rl.visitors[ip]],
              ticks |-> now \div (2 * window)]
    /\ UNCHANGED <<products, variants, productCache, now, reqNo, resp, reviews,
                   sequence, calls, hist>>

(* rateLimiter.cleanup: one pass of the loop, on a tick of the ticker of
   period 2 * window; a tick not received before the next is dropped *)
cleanup ==
    /\ 2 * window * (rl.ticks + 1) <= now
    /\ rl' = [visitors |->
                 [ip \in {i \in DOMAIN rl.visitors :
                             ~(now - rl.visitors[i].lastReset > window * 2)}
                    |-> rl.visitors[ip]],
              ticks |-> now \div (2 * window)]
    /\ UNCHANGED <<products, variants, productCache, now, reqNo, resp, reviews,
                   sequence, calls, hist>>

(* the clock of the running server advances by one second *)
Elapse ==
    /\ now < MaxUptime
    /\ now' = now + 1
    /\ UNCHANGED <<products, variants, productCache, reqNo, resp, reviews, sequence,
                   calls, hist, rl>>

NextMiddleware ==
    \/ \E r \in MiddlewareRequests, panics \in PanicPoints :
          ServeHTTP("10.0.0.1:5000", r.method, r.url, panics)
    \/ cleanup
    \/ Tick

SpecMiddleware == Init /\ [][NextMiddleware]_vars

NextLimiter ==
    \/ \E ip \in Clients, r \in LimiterRequests : ServeHTTP(ip, r.method, r.url, "")
    \/ cleanup
    \/ Elapse

SpecLimiter == Init /\ [][NextLimiter]_vars

----------------------------------------------------------------------------
(* Calls in steps.  net/http serves every request on a goroutine of its    *)
(* own, so the statements of GetProduct, of DecrementQuantity, of          *)
(* DecrementVariantQuantity and of the purchase handlers interleave; one   *)
(* step is one access to the cache or to the database.                     *)

(* a committed write of product row id joins the history *)
Committed(id) == [hist EXCEPT !.writes = Append(@, [id |-> id, t |-> now])]

(* one more purchase of target answered 200 *)
Purchased(h, target) ==
    [h EXCEPT !.purchased =
        cachePut(@, target, IF target \in DOMAIN @ THEN @[target] + 1 ELSE 1)]

(* a goroutine enters the call op on row id at statement pc; at most
   MaxGoroutines calls are in flight *)
enter(op, id, pc) ==
    /\ BagCardinality(calls) < MaxGoroutines
    /\ calls' = calls (+) SetToBag({NewCall(op, id, pc)})
    /\ reqNo' = reqNo + 1
    /\ UNCHANGED <<products, variants, productCache, now, resp, reviews, sequence, hist, rl>>

(* the call c goes on as d; a call that is done leaves its result as the
   last response and ends its goroutine *)
goto(c, d) ==
    IF d.pc = "done"
    THEN /\ calls' = calls (-) SetToBag({c})
         /\ resp' = Reply("", << >>, d.id, d.op, d.status,
                          [start |-> d.start, err |-> d.err, product |-> d.p,
                           readNo |-> d.readNo])
    ELSE /\ calls' = (calls (-) SetToBag({c})) (+) SetToBag({d})
         /\ UNCHANGED resp

(* GetProduct returns: a direct caller has its result; handlePurchaseProduct
   answers 404 on an error and 409 on product.Quantity <= 0, and calls
   DecrementQuantity otherwise; handleGetProductWithReviews answers 404 on
   an error and calls ListReviews otherwise *)
GetProduct_return(c) ==
    IF c.op = "handlePurchaseProduct"
    THEN IF c.err # "" THEN [c EXCEPT !.pc = "done", !.status = 404]
         ELSE IF c.p.quantity <= 0 THEN [c EXCEPT !.pc = "done", !.status = 409]
         ELSE [c EXCEPT !.pc = "select"]
    ELSE IF c.op = "handleGetProductWithReviews"
    THEN IF c.err # "" THEN [c EXCEPT !.pc = "done", !.status = 404]
         ELSE [c EXCEPT !.pc = "listReviews"]
    ELSE [c EXCEPT !.pc = "done"]

(* now := time.Now().UTC() *)
GetProduct_now(c) ==
    /\ c.pc = "now"
    /\ goto(c, [c EXCEPT !.start = now, !.pc = "lookup"])
    /\ UNCHANGED <<products, variants, productCache, now, reqNo, reviews, sequence, hist, rl>>

(* entry, ok := s.productCache[id] under RLock; if ok &&
   now.Before(entry.expiresAt) the entry's product is returned *)
GetProduct_lookup(c) ==
    /\ c.pc = "lookup"
    /\ goto(c, IF c.id \in DOMAIN productCache /\ c.start < productCache[c.id].expiresAt
               THEN GetProduct_return([c EXCEPT !.p = productCache[c.id].product,
                                                !.readNo = IF c.id \in DOMAIN hist.entryRead
                                                           THEN hist.entryRead[c.id]
                                                           ELSE 0])
               ELSE [c EXCEPT !.pc = "query"])
    /\ UNCHANGED <<products, variants, productCache, now, reqNo, reviews, sequence, hist, rl>>

(* SELECT ... FROM products WHERE id = ? AND deleted_at IS NULL *)
GetProduct_query(c) ==
    /\ c.pc = "query"
    /\ goto(c, IF IsActive(products, c.id)
               THEN [c EXCEPT !.p = products[c.id], !.readNo = Len(hist.writes),
                              !.pc = "store"]
               ELSE GetProduct_return([c EXCEPT !.err = "sql: no rows in result set",
                                                !.readNo = Len(hist.writes)]))
    /\ UNCHANGED <<products, variants, productCache, now, reqNo, reviews, sequence, hist, rl>>

(* the row read again when the entry is stored, as it is then *)
GetProduct_store_reread(c) ==
    /\ c.pc = "store"
    /\ productCache' = cachePut(productCache, c.id, cachedProduct(products[c.id], c.start))
    /\ hist' = [hist EXCEPT !.entryRead = cachePut(@, c.id, c.readNo)]
    /\ goto(c, GetProduct_return(c))
    /\ UNCHANGED <<products, variants, now, reqNo, reviews, sequence, rl>>

(* s.productCache[id] = cachedProduct{...} under Lock *)
GetProduct_store(c) ==
    /\ c.pc = "store"
    /\ productCache' = cachePut(productCache, c.id, cachedProduct(c.p, c.start))
    /\ hist' = [hist EXCEPT !.entryRead = cachePut(@, c.id, c.readNo)]
    /\ goto(c, GetProduct_return(c))
    /\ UNCHANGED <<products, variants, now, reqNo, reviews, sequence, rl>>

(* SELECT quantity FROM products WHERE id = ?; on an error
   handlePurchaseProduct answers 500 *)
DecrementQuantity_select(c) ==
    /\ c.pc = "select"
    /\ goto(c, IF c.id \in 1..Len(products)
               THEN [c EXCEPT !.currentQty = products[c.id].quantity, !.pc = "update"]
               ELSE [c EXCEPT !.err = "sql: no rows in result set", !.pc = "done",
                              !.status = 500])
    /\ UNCHANGED <<products, variants, productCache, now, reqNo, reviews, sequence, hist, rl>>

(* UPDATE products SET quantity = ?, in_stock = ?, updated_at = ? WHERE
   id = ?; handlePurchaseProduct then answers 200 *)
DecrementQuantity_update(c) ==
    /\ c.pc = "update"
    /\ products' = [products EXCEPT ![c.id] = Decremented(@, c.currentQty, now)]
    /\ goto(c, [c EXCEPT !.pc = "done", !.status = 200])
    /\ hist' = Purchased(Committed(c.id), <<"product", c.id>>)
    /\ UNCHANGED <<variants, productCache, now, reqNo, reviews, sequence, rl>>

(* handlePurchaseVariant: variant, err := s.store.GetVariant(variantID);
   404 on an error, 409 on variant.Quantity <= 0 *)
handlePurchaseVariant_getVariant(c) ==
    /\ c.pc = "getVariant"
    /\ goto(c, IF c.id \notin DOMAIN variants
               THEN [c EXCEPT !.pc = "done", !.status = 404]
               ELSE IF variants[c.id].quantity <= 0
               THEN [c EXCEPT !.pc = "done", !.status = 409]
               ELSE [c EXCEPT !.pc = "selectVariant"])
    /\ UNCHANGED <<products, variants, productCache, now, reqNo, reviews, sequence, hist, rl>>

(* SELECT quantity FROM variants WHERE id = ?; 500 on an error *)
DecrementVariantQuantity_select(c) ==
    /\ c.pc = "selectVariant"
    /\ goto(c, IF c.id \in DOMAIN variants
               THEN [c EXCEPT !.currentQty = variants[c.id].quantity,
                              !.pc = "updateVariant"]
               ELSE [c EXCEPT !.err = "sql: no rows in result set", !.pc = "done",
                              !.status = 500])
    /\ UNCHANGED <<products, variants, productCache, now, reqNo, reviews, sequence, hist, rl>>

(* UPDATE variants SET quantity = ?, in_stock = ?, updated_at = ? WHERE
   id = ?; handlePurchaseVariant then answers 200 *)
DecrementVariantQuantity_update(c) ==
    /\ c.pc = "updateVariant"
    /\ variants' = [i \in DOMAIN variants |->
                      IF i = c.id THEN Decremented(variants[i], c.currentQty, now)
                      ELSE variants[i]]
    /\ goto(c, [c EXCEPT !.pc = "done", !.status = 200])
    /\ hist' = Purchased(hist, <<"variant", c.id>>)
    /\ UNCHANGED <<products, productCache, now, reqNo, reviews, sequence, rl>>

(* Store.UpdateProduct called while other calls are in flight *)
callUpdateProduct(id, update) ==
    /\ Len(hist.writes) < MaxWrites
    /\ LET u == UpdateProduct(products, now, id, update.name, update.description,
                              RoundCents(update.price), update.category,
                              update.in_stock, update.quantity)
       IN  /\ u.err = ""
           /\ products' = u.products
    /\ hist' = Committed(id)
    /\ UNCHANGED <<variants, productCache, now, reqNo, resp, reviews, sequence, calls, rl>>

(* Store.DeleteProduct called while other calls are in flight *)
callDeleteProduct(id) ==
    /\ Len(hist.writes) < MaxWrites
    /\ LET d == DeleteProduct(products, now, id)
       IN  /\ d.err = ""
           /\ products' = d.products
    /\ hist' = Committed(id)
    /\ UNCHANGED <<variants, productCache, now, reqNo, resp, reviews, sequence, calls, rl>>

(* Store.DecrementQuantity called while other calls are in flight, its
   write committed in one statement *)
callDecrementQuantity(id) ==
    /\ Len(hist.writes) < MaxWrites
    /\ LET d == DecrementQuantity(products, now, id)
       IN  /\ d.err = ""
           /\ products' = d.products
    /\ hist' = Committed(id)
    /\ UNCHANGED <<variants, productCache, now, reqNo, resp, reviews, sequence, calls, rl>>

(* the steps of GetProduct *)
GetProductSteps(c) ==
    \/ GetProduct_now(c)
    \/ GetProduct_lookup(c)
    \/ GetProduct_query(c)
    \/ GetProduct_store(c)

(* GetProduct(8) calls side by side with writes of row 8 *)
NextCache ==
    \/ (reqNo < MaxCalls /\ enter("GetProduct", 8, "now"))
    \/ \E c \in BagToSet(calls) : GetProductSteps(c)
    \/ callUpdateProduct(8, Body("Webcam 4K", Dec(7999, 100), "electronics", TRUE, 5))
    \/ callDeleteProduct(8)
    \/ callDecrementQuantity(8)
    \/ Tick

SpecCache == Init /\ [][NextCache]_vars

(* purchases of product 8 (quantity 3) and of variant 6 (quantity 2) side
   by side, the variant handler called as routeVariants registers it *)
NextPurchase ==
    \/ (reqNo < MaxPurchases /\ enter("handlePurchaseProduct", 8, "now"))
    \/ (reqNo < MaxPurchases /\ enter("handlePurchaseVariant", 6, "getVariant"))
    \/ \E c \in BagToSet(calls) :
          \/ GetProductSteps(c)
          \/ DecrementQuantity_select(c)
          \/ DecrementQuantity_update(c)
          \/ handlePurchaseVariant_getVariant(c)
          \/ DecrementVariantQuantity_select(c)
          \/ DecrementVariantQuantity_update(c)
    \/ Tick

SpecPurchase == Init /\ [][NextPurchase]_vars

(* GET /products/:id/details, after GetProduct: reviews, err :=
   s.store.ListReviews(productID) *)
handleGetProductWithReviews_listReviews(c) ==
    /\ c.pc = "listReviews"
    /\ goto(c, [c EXCEPT !.reviews = ListReviews(reviews, c.id),
                         !.pc = "getAverageRating"])
    /\ UNCHANGED <<products, variants, productCache, now, reqNo, reviews, sequence, hist, rl>>

(* avgRating, reviewCount, err := s.store.GetAverageRating(productID), and
   the ProductWithReviews written as the response *)
handleGetProductWithReviews_getAverageRating(c) ==
    /\ c.pc = "getAverageRating"
    /\ LET a == GetAverageRating(reviews, c.id)
       IN  resp' = Reply("GET", <<"products", Itoa(c.id), "details">>, "",
                         "handleGetProductWithReviews", 200,
                         [product |-> toAPIProduct(c.p), reviews |-> c.reviews,
                          average_rating |-> a.avg, review_count |-> a.count])
    /\ calls' = calls (-) SetToBag({c})
    /\ UNCHANGED <<products, variants, productCache, now, reqNo, reviews, sequence, hist, rl>>

(* requests that create and delete reviews of product 8 *)
DetailsRequests ==
    { Req("POST", <<"products", "8", "reviews">>),
      Req("DELETE", <<"products", "8", "reviews", "1">>) }

(* GET /products/8/details side by side with requests that create and
   delete reviews of product 8 *)
NextDetails ==
    \/ (reqNo < MaxCalls /\ enter("handleGetProductWithReviews", 8, "now"))
    \/ \E c \in BagToSet(calls) :
          \/ GetProductSteps(c)
          \/ handleGetProductWithReviews_listReviews(c)
          \/ handleGetProductWithReviews_getAverageRating(c)
    \/ \E r \in DetailsRequests :
          \/ \E req \in ReviewBodies : handleCreateReview(r.method, r.url, req)
          \/ handleDeleteReview(r.method, r.url)
    \/ Tick

SpecDetails == Init /\ [][NextDetails]_vars

(* the most lines an import is counted for: beyond it the model keeps of
   lineNum and skipped only that they are MaxLines or more and whether they
   are even or odd, and of errors its first MaxLines messages, so that a
   turn of the loop stays a step of the model *)
MaxLines == 6

(* a goroutine serving POST /products/import: failsAt = n > 0 is a body
   whose n-th csvReader.Read and every later one return an error that is not
   io.EOF (the header is the first Read), failsAt = 0 a body read to its end *)
ImportCall(file, failsAt) ==
    [op |-> "handleImportCSV", pc |-> "header", file |-> file, failsAt |-> failsAt,
     lineNum |-> 1, imported |-> 0, skipped |-> 0, errors |-> << >>]

(* record, err := csvReader.Read() returns an error of the underlying reader *)
ReadFails(c) == c.failsAt # 0 /\ c.lineNum >= c.failsAt

(* the imports are served one after the other *)
handleImportCSV_enter(file, failsAt) ==
    /\ reqNo < MaxCalls
    /\ calls = EmptyBag
    /\ calls' = calls (+) SetToBag({ImportCall(file, failsAt)})
    /\ reqNo' = reqNo + 1
    /\ UNCHANGED <<products, variants, productCache, now, resp, reviews, sequence, hist, rl>>

(* the response of an import is written and its goroutine ends *)
handleImportCSV_respond(c, status, body) ==
    /\ calls' = calls (-) SetToBag({c})
    /\ resp' = Reply("POST", <<"products", "import">>, c.file, "handleImportCSV",
                     status, body)

(* the content type, the header row and its columns *)
handleImportCSV_header(c) ==
    /\ c.pc = "header"
    /\ IF c.file.contentType \notin {"text/csv", "multipart/form-data"}
       THEN handleImportCSV_respond(c, 400, "expected CSV content")
       ELSE IF ReadFails(c) \/ Len(c.file.header) = 0
       THEN handleImportCSV_respond(c, 400, "failed to read CSV header")
       ELSE IF \E i \in 1..Len(expectedHeader) :
                  headerMap(c.file.header, expectedHeader[i]) = 0
       THEN handleImportCSV_respond(c, 400, "missing required column")
       ELSE /\ calls' = (calls (-) SetToBag({c}))
                           (+) SetToBag({[c EXCEPT !.pc = "read", !.lineNum = 2]})
            /\ UNCHANGED resp
    /\ UNCHANGED <<products, variants, productCache, now, reqNo, reviews, sequence, hist, rl>>

(* one turn of for lineNum := 2; ; lineNum++: io.EOF breaks the loop and the
   result is written; any other error of Read is recorded and the loop
   continues; a record is imported or skipped *)
handleImportCSV_read(c) ==
    /\ c.pc = "read"
    /\ LET k == c.lineNum - 1
           count(n) == IF n <= MaxLines THEN n + 1 ELSE MaxLines
           r == importRecords([c.file EXCEPT !.rows = SubSeq(@, 1, k)], now, k,
                              [products |-> products, imported |-> c.imported,
                               skipped |-> c.skipped, errors |-> c.errors])
       IN  IF ReadFails(c)
           THEN /\ calls' = (calls (-) SetToBag({c})) (+) SetToBag({
                       [c EXCEPT !.lineNum = count(@), !.skipped = count(@),
                                 !.errors = IF Len(@) < MaxLines
                                            THEN Append(@, <<c.lineNum, "read error">>)
                                            ELSE @]})
                /\ UNCHANGED <<products, resp>>
           ELSE IF k > Len(c.file.rows)
           THEN /\ handleImportCSV_respond(c, IF c.skipped > 0 THEN 206 ELSE 200,
                        [imported |-> c.imported, skipped |-> c.skipped,
                         errors |-> c.errors])
                /\ UNCHANGED products
           ELSE /\ calls' = (calls (-) SetToBag({c})) (+) SetToBag({
                       [c EXCEPT !.lineNum = @ + 1, !.imported = r.imported,
                                 !.skipped = r.skipped, !.errors = r.errors]})
                /\ products' = r.products
                /\ UNCHANGED resp
    /\ UNCHANGED <<variants, productCache, now, reqNo, reviews, sequence, hist, rl>>

(* a turn of some import in flight *)
ImportStep == \E c \in BagToSet(calls) : handleImportCSV_header(c) \/ handleImportCSV_read(c)

NextImportLoop ==
    \/ \E file \in CsvUploads, failsAt \in 0..MaxLines - 1 :
          handleImportCSV_enter(file, failsAt)
    \/ \E c \in BagToSet(calls) :
          \/ handleImportCSV_header(c)
          \/ handleImportCSV_read(c)

(* the goroutine of a request keeps running *)
SpecImportLoop == Init /\ [][NextImportLoop]_vars /\ WF_vars(ImportStep)

----------------------------------------------------------------------------
(* Properties *)

(* the step serves a request *)
Served == reqNo' = reqNo + 1

(* the product id a request under /products/:id names *)
PathId(r) == Atoi(r.url[2]).val

IsProductPurchase(r) ==
    /\ r.method = "POST"
    /\ Len(r.url) = 3 /\ r.url[1] = "products" /\ r.url[3] = "purchase"
    /\ ~Atoi(r.url[2]).err

IsVariantPurchase(r) ==
    /\ r.method = "POST"
    /\ Len(r.url) = 5 /\ r.url[1] = "products" /\ r.url[3] = "variants"
    /\ r.url[5] = "purchase"
    /\ ~Atoi(r.url[2]).err /\ ~Atoi(r.url[4]).err

IsProductUpdate(r) ==
    /\ r.method = "PUT"
    /\ Len(r.url) = 2 /\ r.url[1] = "products"
    /\ ~Atoi(r.url[2]).err

IsProductCreate(r) == r.method = "POST" /\ r.url = <<"products">>

(* C1: a POST /products/:id/purchase issued while the stored quantity of the
   (active) product id is 0 is answered 409 and leaves the stored quantity
   at 0, whatever requests came before and however recently. *)
C1_PurchaseAtZeroIsConflict ==
    [][(/\ Served
        /\ IsProductPurchase(resp')
        /\ IsActive(products, PathId(resp'))
        /\ products[PathId(resp')].quantity = 0)
       => (/\ resp'.status = 409
           /\ products'[PathId(resp')].quantity = 0)]_vars

(* C2: in the seeded state and after every successful product create,
   update or purchase, every product row has in_stock = TRUE exactly when
   quantity > 0. *)
C2_InStockIffQuantityPositive ==
    \A i \in 1..Len(products) : products[i].in_stock = (products[i].quantity > 0)

(* C3: once DeleteProduct(id) has succeeded, GET /products/:id never answers
   200: a product served by handleGetProduct is not soft-deleted. *)
C3_DeletedProductIsNotFound ==
    (resp.handler = "handleGetProduct" /\ resp.status = 200)
        => products[resp.body.id].deleted_at = NULL

(* C4: GET /products, with and without ?category=, never returns a product
   whose deleted_at is set. *)
C4_ListExcludesDeleted ==
    resp.handler = "handleListProducts"
        => \A i \in 1..Len(resp.body) : products[resp.body[i].id].deleted_at = NULL

(* C5: a POST /products/:id/purchase issued after product id has been
   soft-deleted is answered 404 and changes neither quantity nor in_stock of
   that row. *)
C5_PurchaseOfDeletedIsNotFound ==
    [][(/\ Served
        /\ IsProductPurchase(resp')
        /\ PathId(resp') \in 1..Len(products)
        /\ products[PathId(resp')].deleted_at # NULL)
       => (/\ resp'.status = 404
           /\ products'[PathId(resp')].quantity = products[PathId(resp')].quantity
           /\ products'[PathId(resp')].in_stock = products[PathId(resp')].in_stock)]_vars

(* C6: a PUT /products/:id for a product that does not exist or is
   soft-deleted is answered 404 (not 500) and changes no product row. *)
C6_UpdateOfMissingIsNotFound ==
    [][(/\ Served
        /\ IsProductUpdate(resp')
        /\ ~IsActive(products, PathId(resp')))
       => (/\ resp'.status = 404
           /\ products' = products)]_vars

(* C7: a POST /products whose name equals the name of an existing row,
   active or soft-deleted, adds no row and is not answered 201. *)
C7_DuplicateNameIsRejected ==
    [][(/\ Served
        /\ IsProductCreate(resp')
        /\ NameTaken(products, resp'.reqBody.name, 0))
       => (/\ products' = products
           /\ resp'.status # 201)]_vars

(* C8: a POST /products/:id/variants/:vid/purchase is served by the variant
   purchase handler, never by the product purchase handler, and when it is
   answered 200 the quantity of variant vid has gone down by one. *)
C8_VariantPurchaseIsDispatchedToVariantHandler ==
    [][(Served /\ IsVariantPurchase(resp'))
       => (/\ resp'.handler = "handlePurchaseVariant"
           /\ resp'.status = 200 =>
                 LET vid == Atoi(resp'.url[4]).val
                 IN  /\ vid \in DOMAIN variants /\ vid \in DOMAIN variants'
                     /\ variants'[vid].quantity = variants[vid].quantity - 1)]_vars

(* C9: a POST /products/:id/variants/:vid/purchase leaves quantity and
   in_stock of product id unchanged, and a POST /products/:id/purchase leaves
   every variant row unchanged. *)
C9_VariantAndProductStockAreIndependent ==
    [][/\ (Served /\ IsVariantPurchase(resp') /\ PathId(resp') \in 1..Len(products))
          => (/\ products'[PathId(resp')].quantity = products[PathId(resp')].quantity
              /\ products'[PathId(resp')].in_stock = products[PathId(resp')].in_stock)
       /\ (Served /\ IsProductPurchase(resp')) => variants' = variants]_vars

(* C10: a product created through POST /products and read through
   GET /products/:id shows its stored non-negative price: the price of the
   response, in cents, is the price_cents of the snapshot served. *)
C10_ApiPriceIsStoredPrice ==
    (/\ resp.handler = "handleGetProduct" /\ resp.status = 200
     /\ resp.body.id > Len(seedProducts)
     /\ productCache[resp.body.id].product.price_cents >= 0)
        => DecEq(resp.body.price,
                 Dec(productCache[resp.body.id].product.price_cents, 100))

(* the products a file re-creates when it is imported into an empty catalog *)
Reimported(file) == ImportCSV(<< >>, now, file).products

SameProduct(p, q) ==
    /\ q.name = p.name /\ q.description = p.description
    /\ q.category = p.category /\ q.price_cents = p.price_cents
    /\ q.in_stock = p.in_stock /\ q.quantity = p.quantity

(* C11: importing the file of a CSV export into an empty catalog
   re-creates, for every product of the export, a row with the same name,
   description, price in cents, category, in_stock and quantity. *)
C11_ExportImportRoundTrip ==
    resp.handler = "handleExportCSV"
        => LET exported == ListProducts(products, resp.reqBody)
               reimported == Reimported(resp.body)
           IN  \A i \in 1..Len(exported) :
                  \E j \in 1..Len(reimported) :
                     SameProduct(exported[i], reimported[j])

(* C12: every product row has price_cents >= 0, in the seeded state and
   after every request; a POST /products or PUT /products/:id whose price is
   negative is answered with a client error and changes no row. *)
C12_PriceIsNeverNegative ==
    [][/\ \A i \in 1..Len(products') : products'[i].price_cents >= 0
       /\ (/\ Served
           /\ (IsProductCreate(resp') \/ IsProductUpdate(resp'))
           /\ DecLess(resp'.reqBody.price, Dec(0, 1)))
          => (/\ resp'.status \in 400..499
              /\ products' = products)]_vars

(* C13: a GetProduct(id) call that starts 3 seconds or more after a write of
   row id (UpdateProduct, DeleteProduct, DecrementQuantity) was committed
   returns the result of a database read made after that write, however the
   GetProduct calls in flight interleave. *)
C13_StalenessIsBoundedByCacheWindow ==
    resp.handler = "GetProduct"
       => \A k \in 1..Len(hist.writes) :
             (/\ hist.writes[k].id = resp.reqBody
              /\ hist.writes[k].t + 3 <= resp.body.start)
                => resp.body.readNo >= k

(* a call that started 3 seconds after a write has returned a read made
   after it, and the cache holds a row read before that write, stored late
   by a call that was in flight *)
C13_Witness ==
    /\ resp.handler = "GetProduct"
    /\ \E k \in 1..Len(hist.writes) :
          /\ hist.writes[k].id = resp.reqBody
          /\ hist.writes[k].t + 3 <= resp.body.start
          /\ resp.body.readNo >= k
          /\ resp.reqBody \in DOMAIN hist.entryRead
          /\ hist.entryRead[resp.reqBody] < k

(* C14: soft-deletion is one-way: no request (create, update, delete,
   purchase, import) removes a product row or makes the deleted_at of a
   soft-deleted row null again. *)
C14_SoftDeleteIsOneWay ==
    [][/\ Len(products') >= Len(products)
       /\ \A i \in 1..Len(products) :
             /\ products'[i].id = products[i].id
             /\ products[i].deleted_at # NULL => products'[i].deleted_at # NULL]_vars

(* a soft-deleted row has been written again (a purchase served from the
   cache after the deletion) and is still soft-deleted *)
C14_Witness ==
    \E i \in 1..Len(products) :
       /\ products[i].deleted_at # NULL
       /\ products[i].updated_at > products[i].deleted_at

(* the purchases of target answered 200 so far *)
Sold(h, target) == IF target \in DOMAIN h.purchased THEN h.purchased[target] ELSE 0

(* C15: purchases of the same variant (or product) that run side by side
   can both read the same quantity and both succeed: the UPDATE of each
   purchase stores the quantity its own SELECT read minus one, whatever was
   written in between, so the stored quantity is never lower, and can be
   higher, than the initial quantity minus the number of purchases answered
   200. *)
C15_PurchaseWritesFromItsOwnRead ==
    [][/\ \A c \in BagToSet(calls) :
             (c.pc = "updateVariant" /\ CopiesIn(c, calls') < CopiesIn(c, calls))
                => variants'[c.id].quantity = c.currentQty - 1
       /\ \A c \in BagToSet(calls) :
             (c.pc = "update" /\ CopiesIn(c, calls') < CopiesIn(c, calls))
                => products'[c.id].quantity = c.currentQty - 1
       /\ variants'[6].quantity
             >= seedVariants[6].quantity - Sold(hist', <<"variant", 6>>)
       /\ products'[8].quantity
             >= seedProducts[8].quantity - Sold(hist', <<"product", 8>>)]_vars

(* the lost update: two purchases of variant 6 were answered 200, no call is
   in flight, and the stored quantity is the initial quantity minus one *)
C15_Witness ==
    /\ calls = EmptyBag
    /\ Sold(hist, <<"variant", 6>>) = 2
    /\ variants[6].quantity = seedVariants[6].quantity - 1

(* C16: under every interleaving of purchases served side by side, the
   stored quantity of a product or variant is never negative and the
   purchases answered 200 are never more than the quantity that was in
   stock. *)
C16_PurchasesNeverOversell ==
    /\ variants[6].quantity >= 0
    /\ Sold(hist, <<"variant", 6>>) <= seedVariants[6].quantity
    /\ products[8].quantity >= 0
    /\ Sold(hist, <<"product", 8>>) <= seedProducts[8].quantity

(* a create-review request: POST /products/:id/reviews *)
IsReviewCreate(r) ==
    /\ r.method = "POST"
    /\ Len(r.url) = 3 /\ r.url[1] = "products" /\ r.url[3] = "reviews"

(* C17: every review row that exists has a non-empty author and a rating in
   1..5; a create-review request with an empty author or a rating outside
   1..5 is answered 400 and adds no row. *)
C17_ReviewsAreValidated ==
    [][ /\ \A i \in DOMAIN reviews' :
              reviews'[i].author # "" /\ reviews'[i].rating \in 1..5
        /\ (/\ reqNo' = reqNo + 1
            /\ IsReviewCreate(resp')
            /\ (resp'.reqBody.author = "" \/ resp'.reqBody.rating \notin 1..5))
           => (resp'.status = 400 /\ reviews' = reviews) ]_vars

(* a review is stored and a create-review request with a rating of 6 has
   just been refused *)
C17_Witness ==
    /\ reviews # << >>
    /\ IsReviewCreate(resp)
    /\ resp.reqBody.rating = 6
    /\ resp.status = 400

(* C18: a variant or a review is inserted only for a parent product that
   exists and is not soft-deleted at the moment of the insert, also when the
   product was read shortly before its deletion. *)
C18_ChildrenOnlyOfActiveProducts ==
    [][ /\ \A i \in DOMAIN variants' \ DOMAIN variants :
              IsActive(products, variants'[i].product_id)
        /\ \A i \in DOMAIN reviews' \ DOMAIN reviews :
              IsActive(products, reviews'[i].product_id) ]_vars

(* C19: every variant row has a non-empty sku, a non-empty name and
   price_cents >= 0; an update request with an empty sku, an empty name or a
   negative price is rejected and changes no row. *)
C19_VariantsAreValidated ==
    [][ /\ \A i \in DOMAIN variants' :
              /\ variants'[i].sku # ""
              /\ variants'[i].name # ""
              /\ variants'[i].price_cents >= 0
        /\ (/\ reqNo' = reqNo + 1
            /\ resp'.handler = "handleUpdateVariant"
            /\ (\/ resp'.reqBody.sku = ""
                \/ resp'.reqBody.name = ""
                \/ DecLess(resp'.reqBody.price, Dec(0, 1))))
           => (resp'.status \in 400..499 /\ variants' = variants) ]_vars

(* a successful variant create or update, or a successful purchase *)
VariantWritten(r) ==
    /\ r.handler \in {"handleCreateVariant", "handleUpdateVariant",
                      "handlePurchaseVariant", "handlePurchaseProduct"}
    /\ r.status \in 200..299

(* C20: after any successful variant create, update or purchase, every
   variant row has in_stock = TRUE exactly when quantity > 0. *)
C20_VariantInStockIsDerived ==
    VariantWritten(resp) =>
        \A i \in DOMAIN variants : variants[i].in_stock = (variants[i].quantity > 0)

(* a CSV import that got past the header: answered 200 or 206 *)
IsImport(r) == r.handler = "handleImportCSV" /\ r.status \in {200, 206}

(* C21: for a CSV import with a valid header and n data rows, imported +
   skipped = n, imported is the number of product rows added, there is one
   error message per skipped row, a row after a bad one is still processed
   (every line is either reported or stored) and the status is 206 when
   skipped > 0 and 200 otherwise. *)
C21_ImportCountsEveryRow ==
    [][ (reqNo' = reqNo + 1 /\ IsImport(resp')) =>
          LET file == resp'.reqBody
              res == resp'.body
              n == Len(file.rows)
              added == {i \in 1..Len(products') : i > Len(products)}
              reported == {res.errors[e][1] : e \in 1..Len(res.errors)}
              nameOf(k) == TrimSpace(file.rows[k][headerMap(file.header, "name")])
          IN  /\ res.imported + res.skipped = n
              /\ res.imported = Cardinality(added)
              /\ Len(res.errors) = res.skipped
              /\ Cardinality(reported) = res.skipped
              /\ \A k \in 1..n :
                    \/ k + 1 \in reported
                    \/ \E i \in added : products'[i].name = nameOf(k)
              /\ \A i \in 1..Len(products) : products'[i] = products[i]
              /\ resp'.status = (IF res.skipped > 0 THEN 206 ELSE 200) ]_vars

(* an import of four records has stored the last one after skipping the
   three before it *)
C21_Witness ==
    /\ IsImport(resp)
    /\ resp.status = 206
    /\ resp.body.imported = 1
    /\ resp.body.skipped = 3
    /\ products[Len(products)].name = "Stapler"

(* C22: in every reachable state no two product rows, counting soft-deleted
   rows, have the same name; neither create, import nor update can break
   this. *)
C22_ProductNamesAreUnique ==
    \A i, j \in 1..Len(products) :
        i # j => products[i].name # products[j].name

(* a POST /products naming a soft-deleted product has just been served and
   has added no row *)
C22_Witness ==
    /\ IsProductCreate(resp)
    /\ Len(products) = Len(seedProducts) + 1
    /\ products[Len(products)].deleted_at # NULL
    /\ products[Len(products)].name = resp.reqBody.name

(* the methods the dispatch table lists for the route a path under
   /products/:id matches *)
Listed(url) ==
    LET path == Tail(url)
    IN  IF Len(path) = 1 THEN {"GET", "PUT", "DELETE"}
        ELSE IF path[2] = "purchase" THEN {"POST"}
        ELSE IF path[2] = "reviews"
        THEN (IF Len(path) = 2 THEN {"GET", "POST"}
              ELSE IF Len(path) = 3 THEN {"DELETE"}
              ELSE {"POST"})
        ELSE IF path[2] = "variants"
        THEN (IF Len(path) = 2 THEN {"GET", "POST"}
              ELSE IF Len(path) = 3 THEN {"GET", "PUT", "DELETE"}
              ELSE {"POST"})
        ELSE {"GET"}

(* a step that serves a request through the middleware chain *)
ServedByChain == reqNo' = reqNo + 1 /\ "ip" \in DOMAIN resp'.reqBody

(* the step leaves the tables and the cache as they were *)
NoStoreMutation ==
    UNCHANGED <<products, variants, reviews, sequence, productCache>>

(* the client of the request served has been let through rate times since
   its visitor was created or reset *)
Exhausted(ip) == ip \in DOMAIN hist.allowed /\ hist.allowed[ip] = rate

(* C23 as stated: for every path under /products/:id/ that matches a route,
   a request whose method is not one listed for that route is answered 405
   and performs no store mutation. *)
C23_UnlistedMethodIs405 ==
    [][ (ServedByChain /\ resp'.method \notin Listed(resp'.url))
           => (resp'.status = 405 /\ NoStoreMutation) ]_vars

(* C23 amended: such a request performs no store mutation and is answered
   405, except that an OPTIONS request is answered 204 by the CORS
   middleware and a request of a client that has used up its rate is
   answered 429, both before the dispatch. *)
C23_UnlistedMethodIs405UnlessPreflightOrLimited ==
    [][ (ServedByChain /\ resp'.method \notin Listed(resp'.url))
           => /\ NoStoreMutation
              /\ resp'.status =
                    (IF resp'.method = "OPTIONS" THEN 204
                     ELSE IF resp'.status = 429 /\ Exhausted(resp'.reqBody.ip)
                     THEN 429
                     ELSE 405) ]_vars

(* a PUT on /products/8/reviews/1 has been answered 405 *)
C23_Witness ==
    /\ resp.method = "PUT"
    /\ resp.url = <<"products", "8", "reviews", "1">>
    /\ resp.status = 405

(* the visitor of ip is neither created nor reset by the step *)
SameWindow(ip) ==
    /\ ip \in DOMAIN rl.visitors
    /\ ip \in DOMAIN rl'.visitors
    /\ rl'.visitors[ip].lastReset = rl.visitors[ip].lastReset

(* the limit of C24 for the requests that satisfy counted *)
RateLimit(counted(_)) ==
    /\ \A ip \in DOMAIN rl'.visitors : rl'.visitors[ip].tokens \in 0..(rate - 1)
    /\ \A ip \in DOMAIN hist'.allowed : hist'.allowed[ip] <= rate
    /\ (ServedByChain /\ counted(resp'))
          => LET ip == resp'.reqBody.ip
             IN  /\ (Exhausted(ip) /\ SameWindow(ip)) => resp'.status = 429
                 /\ resp'.status = 429 =>
                       (resp'.handler = "none" /\ NoStoreMutation)

(* C24 as stated: for each client key at most rate requests are allowed
   between two consecutive window resets of that client; every further
   request in that window is answered 429 and does not reach the handlers,
   and the client's token count stays within 0..rate-1. *)
C24_AtMostRatePerWindow ==
    [][ LET counted(r) == TRUE IN RateLimit(counted) ]_vars

(* C24 amended: the same for every request other than OPTIONS; an OPTIONS
   request is answered 204 by the CORS middleware before the limiter, is not
   counted and does not reach the handlers either. *)
C24_AtMostRatePerWindowButPreflight ==
    [][ /\ LET counted(r) == r.method # "OPTIONS" IN RateLimit(counted)
        /\ (ServedByChain /\ resp'.method = "OPTIONS")
              => (resp'.status = 204 /\ resp'.handler = "none" /\ NoStoreMutation
                  /\ UNCHANGED rl) ]_vars

(* a client that has been let through rate times and has no token left has
   been answered 429 *)
C24_Witness ==
    /\ resp.status = 429
    /\ resp.reqBody.ip \in DOMAIN rl.visitors
    /\ rl.visitors[resp.reqBody.ip].tokens = 0
    /\ Exhausted(resp.reqBody.ip)

(* the visitors the step removes *)
Pruned == DOMAIN rl.visitors \ DOMAIN rl'.visitors

(* the seconds since the last request of ip *)
Unseen(ip) == now - hist.seen[ip]

IsReviewApprove(r, id) ==
    /\ r.handler = "handleApproveReview"
    /\ Atoi(r.url[4]).val = id

(* C26: a review is created with approved = false; approved becomes true
   only through ApproveReview on that review id, and once true it stays true
   until the review is deleted; ApproveReview on a missing id returns
   not-found and changes no row. *)
C26_ApprovalIsExplicitAndSticky ==
    [][ /\ \A i \in DOMAIN reviews' \ DOMAIN reviews : ~reviews'[i].approved
        /\ \A i \in DOMAIN reviews' \cap DOMAIN reviews :
              /\ (reviews'[i].approved /\ ~reviews[i].approved)
                    => (Served /\ IsReviewApprove(resp', i) /\ resp'.status = 200)
              /\ reviews[i].approved => reviews'[i].approved
        /\ (Served /\ resp'.handler = "handleApproveReview"
              /\ Atoi(resp'.url[4]).val \notin DOMAIN reviews)
              => (resp'.status = 404 /\ reviews' = reviews) ]_vars

(* of two reviews, review 1 has just been approved and review 2 has not *)
C26_Witness ==
    /\ IsReviewApprove(resp, 1)
    /\ DOMAIN reviews = {1, 2}
    /\ reviews[1].approved
    /\ ~reviews[2].approved

(* C27: a panic raised while one request is handled results in a 500
   response for that request only; the server then serves every later
   request as the chain without the panic answers it, and the recovery
   changes no rate-limiter or cache state beyond what the request had
   already written (nothing but the visitor when the handler panics on
   entry). *)
C27_PanicIsRecovered ==
    [][ ServedByChain =>
          LET ip == resp'.reqBody.ip
              panics == resp'.reqBody.panics
              inner == loggingMiddleware(Serving, ip, resp'.method, resp'.url, panics)
          IN  /\ panics # "" =>
                    /\ resp'.status = 500
                    /\ products' = inner.products
                    /\ productCache' = inner.cache
                    /\ rl'.visitors = inner.visitors
                    /\ panics = "entry" =>
                          /\ NoStoreMutation
                          /\ rl'.visitors = allow(rl.visitors, ip, now).visitors
              /\ (panics = "" /\ hist.recovered > 0) =>
                    /\ resp'.status = inner.status
                    /\ resp'.status \in {200, 204, 404, 405, 429} ]_vars

(* after a request whose handler panicked, a GET of product 8 has been
   answered 200 *)
C27_Witness ==
    /\ hist.recovered > 0
    /\ resp.handler = "handleGetProduct"
    /\ resp.reqBody.panics = ""
    /\ resp.status = 200

(* C28: ListProducts(category) with a non-empty category returns exactly the
   products whose category field equals the argument string, for every
   argument string including ones containing a single quote. *)
C28_CategoryFilterIsExact ==
    (resp.handler = "handleListProducts" /\ resp.reqBody # "")
        => LET matching == SelectSeq(products, LAMBDA p : p.category = resp.reqBody)
           IN  /\ resp.status = 200
               /\ resp.body = [i \in 1..Len(matching) |-> toAPIProduct(matching[i])]

(* C29: DeleteProduct on a product that is already soft-deleted or does not
   exist returns the not-found error and leaves every row unchanged; the
   deleted_at and updated_at of an already deleted row are not overwritten
   by a second delete. *)
C29_DeleteOfDeletedChangesNothing ==
    [][ (/\ Served
         /\ resp'.handler = "handleDeleteProduct"
         /\ ~Atoi(resp'.url[2]).err
         /\ ~IsActive(products, PathId(resp')))
           => /\ resp'.status = 404
              /\ UNCHANGED <<products, variants, reviews>> ]_vars

(* a second DELETE of product 8, a second after the first, has been
   answered 404 *)
C29_Witness ==
    /\ resp.handler = "handleDeleteProduct"
    /\ resp.url = <<"products", "8">>
    /\ resp.status = 404
    /\ products[8].deleted_at # NULL
    /\ products[8].deleted_at < now

(* C30: every 201 response to POST /products carries the id (>= 1) of a
   product row that this request inserted; when Store.CreateProduct returns
   an error the response is an error status and not 201. *)
C30_CreatedMeansInserted ==
    [][ (Served /\ resp'.handler = "handleCreateProduct" /\ resp'.status = 201)
           => /\ resp'.body.id >= 1
              /\ resp'.body.id = Len(products')
              /\ Len(products') = Len(products) + 1
              /\ products'[resp'.body.id].name = resp'.reqBody.name ]_vars

(* C31: the body of a successful PUT /products/:id shows the values that
   update wrote (name, description, price, category, in_stock, quantity, as
   the API renders the stored row), also when GetProduct read the product
   less than CacheTTL seconds before. *)
C31_UpdateAnswersWhatItWrote ==
    [][(/\ Served
        /\ IsProductUpdate(resp')
        /\ resp'.status = 200)
       => LET written_ == toAPIProduct(products'[PathId(resp')])
          IN  /\ resp'.body.name = written_.name
              /\ resp'.body.description = written_.description
              /\ resp'.body.price = written_.price
              /\ resp'.body.category = written_.category
              /\ resp'.body.in_stock = written_.in_stock
              /\ resp'.body.quantity = written_.quantity]_vars

(* C32: in every response of GET /products/:id/details, review_count is
   the number of entries of reviews and average_rating is the mean rating
   of exactly those entries, also when reviews of the product are created
   or deleted while the request is served. *)
C32_DetailsAreOneSnapshot ==
    (resp.handler = "handleGetProductWithReviews" /\ resp.status = 200)
    => /\ resp.body.review_count = Len(resp.body.reviews)
       /\ DecEq(resp.body.average_rating,
                IF resp.body.reviews = << >> THEN Dec(0, 1)
                ELSE Dec(SumRatings(resp.body.reviews), Len(resp.body.reviews)))

(* the request names a row of the table under a product that is not the
   row's product_id, or names no row of the table *)
NotOfProduct(table, r) ==
    LET id == Atoi(r.url[2]).val
        child == Atoi(r.url[4]).val
    IN  child \notin DOMAIN table \/ table[child].product_id # id

(* C33: a request on /products/:id/variants/:vid acts on variant vid only if
   that variant's product_id is id, and a DELETE or approve on
   /products/:id/reviews/:rid only on a review of product id; otherwise it
   is answered 404 and changes nothing. *)
C33_ChildIsReachedThroughItsProduct ==
    [][(/\ Served
        /\ Len(resp'.url) >= 4
        /\ \/ (resp'.url[3] = "variants" /\ NotOfProduct(variants, resp'))
           \/ (resp'.url[3] = "reviews" /\ NotOfProduct(reviews, resp')))
       => (/\ resp'.status = 404
           /\ variants' = variants
           /\ reviews' = reviews)]_vars

(* an import is being served *)
Importing == \E c \in BagToSet(calls) : c.op = "handleImportCSV"

(* C34: handleImportCSV terminates for every input: for a finite CSV body
   and also when the underlying reader keeps returning an error that is not
   io.EOF, the row loop ends and a response is written. *)
C34_ImportTerminates == Importing ~> ~Importing

(* C35: the aggregate queries succeed on every table state: the inventory
   of a product without variants is variant_count = total_stock =
   in_stock_count = 0, and GetProductCount returns total = in_stock +
   out_of_stock = the number of product rows that are not deleted. *)
C35_AggregatesSucceed ==
    /\ (/\ resp.handler = "handleGetVariantInventory"
        /\ ~Atoi(resp.url[2]).err
        /\ \A i \in DOMAIN variants : variants[i].product_id # PathId(resp))
       => (/\ resp.status = 200
           /\ resp.body.variant_count = 0
           /\ resp.body.total_stock = 0
           /\ resp.body.in_stock_count = 0)
    /\ resp.handler = "GetProductCount"
       => (/\ resp.body.err = ""
           /\ resp.body.total = resp.body.inStock + resp.body.outOfStock
           /\ resp.body.total =
                 Cardinality({i \in 1..Len(products) : products[i].deleted_at = NULL}))

(* C36: each cache entry for id holds a snapshot that an earlier database
   read returned for row id while its deleted_at was null, and expires at
   most CacheTTL seconds after the start of the GetProduct call that stored
   it; a GetProduct that ends in not-found neither creates nor replaces nor
   removes an entry, and nothing but GetProduct writes the cache.  Step by
   step: a call comes to store only the active row its query has just read,
   the cache changes only by a call storing the row it carries with the
   expiry counted from its start, and no call has started in the future. *)
C36_CacheHoldsActiveSnapshots ==
    [][/\ \A d \in BagToSet(calls') :
             (d.pc = "store" /\ CopiesIn(d, calls') > CopiesIn(d, calls))
                => (IsActive(products, d.id) /\ d.p = products[d.id] /\ d.err = "")
       /\ \A c \in BagToSet(calls') : c.start <= now'
       /\ productCache' # productCache
             => \E c \in BagToSet(calls) :
                   /\ c.pc = "store"
                   /\ productCache' =
                         cachePut(productCache, c.id,
                                  [product |-> c.p, expiresAt |-> c.start + CacheTTL])
       /\ \A id \in DOMAIN productCache' :
             /\ productCache'[id].product.id = id
             /\ productCache'[id].product.deleted_at = NULL
             /\ productCache'[id].expiresAt <= now' + CacheTTL]_vars

(* product 8 was read and cached, then deleted; a GetProduct after the
   entry's expiry has ended in not-found and the entry is still the one
   stored *)
C36_Witness ==
    /\ resp.handler = "GetProduct"
    /\ resp.body.err # ""
    /\ 8 \in DOMAIN productCache
    /\ productCache[8].expiresAt <= now
    /\ ~IsActive(products, 8)

(* C37: the sweep is invisible to clients: every request that reaches the
   limiter is let through or denied exactly as rateLimiter.allow alone, run
   on the same requests at the same times with no sweep at all, lets it
   through or denies it. *)
C37_SweepIsInvisible ==
    [][(ServedByChain /\ resp'.method # "OPTIONS")
       => ((resp'.status # 429) = allow(hist.unswept, resp'.reqBody.ip, now).ok)]_vars

(* a client whose visitor the sweep had removed has sent a request again
   and been let through, and its visitor is the one it would have with no
   sweep *)
C37_Witness ==
    /\ hist.returned > 0
    /\ resp.handler = "handleGetProduct"
    /\ resp.status = 200
    /\ rl.visitors[resp.reqBody.ip] = hist.unswept[resp.reqBody.ip]
    /\ rl.visitors[resp.reqBody.ip].lastReset = now

(* C38: soft-deleting a product changes only deleted_at and updated_at of
   that product row: every other product row, every variant row and every
   review row, those of the deleted product included, and the cache are
   left as they were. *)
C38_SoftDeleteTouchesOneRow ==
    [][(/\ Served
        /\ resp'.handler = "handleDeleteProduct"
        /\ resp'.status = 204)
       => LET id == PathId(resp')
          IN  /\ Len(products') = Len(products)
              /\ \A i \in 1..Len(products) : i # id => products'[i] = products[i]
              /\ products'[id] = [products[id] EXCEPT !.deleted_at = now,
                                                      !.updated_at = now]
              /\ UNCHANGED <<variants, reviews, productCache>>]_vars

(* product 8 has been deleted while it had a variant, a review and a cache
   entry, and all three are still there *)
C38_Witness ==
    /\ resp.handler = "handleDeleteProduct"
    /\ resp.status = 204
    /\ products[8].deleted_at = now
    /\ \E v \in DOMAIN variants : variants[v].product_id = 8
    /\ \E r \in DOMAIN reviews : reviews[r].product_id = 8
    /\ 8 \in DOMAIN productCache

====
